---- MODULE Spec2Model ----
(***************************************************************************)
(* State-machine model of the minecraft-firebot polling loops.             *)
(*                                                                         *)
(* Every loop variant reads a sensor file, decides, writes command.json    *)
(* and sleeps.  One step of the model is one iteration of one loop (for    *)
(* advanced_ai_firebot: one decision, or one round of its inner            *)
(* suppression loop).  `prog` says which script is running.                *)
(*                                                                         *)
(* Dictionaries (positions, hazards, keyword arguments) are records that    *)
(* list their keys.  Time is counted in tenths of a second.                *)
(* The scripts use time.time() only in `current_time - last_patrol > 8`,   *)
(* so the model keeps that difference (saturating just above the           *)
(* interval) instead of the two absolute clock values.                     *)
(***************************************************************************)
EXTENDS Integers, Sequences, FiniteSets, TLC

VARIABLES
  prog,                    \* which script runs
  crash,                   \* "none", or what raised the exception that ended the loop: "sensor" (reading the
                           \* sensor file or its keys) or "model" (the model call)
  state,                   \* advanced_firebot: state
  last_patrol_age,         \* advanced_firebot: time.time() - last_patrol at the next tick start
  fires_suppressed_total,  \* advanced_firebot: fires_suppressed_total
  patrol_cycles,           \* advanced_firebot: patrol_cycles
  stuck_counter,           \* advanced_firebot: stuck_counter
  last_position,           \* advanced_firebot: last_position (the empty dict stands for None too: both falsy)
  data,                    \* the snapshot get_fire_data returned at the start of the last step
  read_failed,             \* that read raised (file missing or unparseable)
  reread,                  \* advanced_firebot SUPPRESS: the re-read snapshot's fire_count, else NoReread
  cmds,                    \* the commands written to command.json during the last step, in order
  logged,                  \* the events appended to logs/events.jsonl during the last step
  elapsed,                 \* the time the last step slept
  handler,                 \* which branch handled the last step ("stuck" or the state's name)
  ai_pc,                   \* advanced_ai_firebot: "decide" (outer loop) or "round" (inner suppression loop)
  decision_count,          \* advanced_ai_firebot: decision_count
  training_samples_collected, \* advanced_ai_firebot: training_samples_collected
  action,                  \* advanced_ai_firebot, minecraft_firebot_simple: the action decided last
  analysis,                \* advanced_ai_firebot: the visual analysis parsed from the last model response
  sample_label,            \* the label of the training sample saved in the last step, else "none"
  attempts,                \* advanced_ai_firebot: attempts
  fires_this_round,        \* advanced_ai_firebot: fires_this_round
  fires_suppressed,        \* advanced_ai_firebot: fires_suppressed
  count,                   \* collect_training_data: count
  step,                    \* minecraft_firebot_simple: step
  scenario_ticks,          \* n while the first n ticks all read fire_count 0, else ScenarioOver
  explore_age,             \* during those ticks: time since the last 'patrol' command, at the next tick start
  snapshot_repeat,         \* "same" when the last tick read the snapshot the tick before it read, else
                           \* "changed"; "untracked" throughout when the history is not recorded
  episode,                 \* advanced_ai_firebot: the fire_count of the read before the suppression loop
                           \* and of the loop's first read (NoRound before it), when recorded
  near_read                \* "yes" once a snapshot was read whose position is within the close range of
                           \* its first hazard, "no" before; "untracked" when the history is not recorded
VARIABLES
  command_file,            \* command.json: whether it exists, its text, and which write produced it
  py_pc,                   \* send_command: "idle", or "writing" between open(..., 'w') and the close
  py_cmd,                  \* send_command: cmd, the dictionary of the last call
  py_old,                  \* the length of the text command.json held when the last call opened it
  sent,                    \* how many times send_command was called
  js_pc,                   \* autobot.js command handler: "idle", "exists" (after existsSync), "read"
  js_cmd,                  \* autobot.js command handler: cmd, and which write it came from
  js_crashed,              \* autobot.js ended with an uncaught exception
  lost                     \* the writes whose command was unlinked without having been read
VARIABLES
  call,                    \* a helper function called on its own: its name and arguments
  result,                  \* what that call returned
  events_file,             \* logs/events.jsonl: its text
  vlm,                     \* mobile_vlm_bridge: the planner in use ("unset" before start-up)
  requests                 \* mobile_vlm_bridge: the number of POST /plan requests answered

VARIABLES
  experience_buffer,       \* OnlineLearner: experience_buffer, one deque per label (oldest first)
  learning_stats,          \* OnlineLearner: learning_stats
  learning_file,           \* models/online_learning_data.json: whether it exists and the JSON document in it
  clock,                   \* datetime.now(), in minutes
  tf_available,            \* online_learner: TF_AVAILABLE, fixed when the module is imported
  training_data,           \* training_data/<label>/: the *.jpg names of each label's directory, in the
                           \* order glob lists them
  split_dirs               \* training_data_split/train and /val: the (label, name) files in each

-----------------------------------------------------------------------------
(* Bounds of the model *)
MaxCount == 2
MaxFires == 2
MaxTotal == 2
MaxPatrolCycles == 2
MaxDecisions == 3
MaxAiTotal == 10
MaxSamples == 3
MaxSteps == 3
MaxSends == 3
MaxCoord == 1
MaxLines == 2
MaxRequests == 2

(* Program constants (times in tenths of a second) *)
SendSleep == 2
TickSleep == 15
StuckSleep == 30
AssessWait == 10
GotoSleep == 40
EquipSleep == 5
SuppressWait == 80
PatrolInterval == 80
CloseRange == 8
StuckLimit == 8
MoveThreshold == 1
ScenarioLen == 10
max_attempts == 10
NavigateRange == 4
SampleTarget == 500

AgeCap == PatrolInterval + 1
ScenarioOver == ScenarioLen + 1
NoReread == 0 - 1

Min(a, b) == IF a < b THEN a ELSE b

-----------------------------------------------------------------------------
(* Dictionaries with the keys x, y, z (positions, hazards, keyword         *)
(* arguments): a record that lists the keys present; an absent key holds 0. *)
Dict(keys, x, y, z) ==
  [keys |-> keys,
   x |-> IF "x" \in keys THEN x ELSE 0,
   y |-> IF "y" \in keys THEN y ELSE 0,
   z |-> IF "z" \in keys THEN z ELSE 0]
Pt(x, y, z) == Dict({"x", "y", "z"}, x, y, z)
EmptyDict == Dict({}, 0, 0, 0)
Get(d, k, dflt) == IF k \in d.keys THEN d[k] ELSE dflt

Positions == {Pt(0, 64, 0), Pt(2, 64, 0)}
FirePoints == {Pt(8, 64, 0), Pt(10, 64, 0)}
(* Hazard lists: distinct blocks, in the order the external process gives *)
FireLists ==
  {f \in UNION {[1..n -> FirePoints] : n \in 0..MaxFires} :
     \A i, k \in DOMAIN f : i # k => f[i] # f[k]}

AllKeys == {"fires", "fire_count", "position", "health"}

(* The sensor file: absent, not parseable (empty, truncated, invalid JSON), *)
(* or a JSON object holding the keys in `keys`.                             *)
JsonFiles ==
  {[kind |-> "json", keys |-> AllKeys, fire_count |-> c, fires |-> f,
    position |-> p, health |-> 20] :
      c \in 0..MaxCount, f \in FireLists, p \in Positions}
  \cup {[kind |-> "json", keys |-> {}, fire_count |-> 0, fires |-> <<>>,
         position |-> EmptyDict, health |-> 20]}
BadFile(k) ==
  [kind |-> k, keys |-> {}, fire_count |-> 0, fires |-> <<>>, position |-> EmptyDict,
   health |-> 20]
Files == JsonFiles \cup {BadFile("missing"), BadFile("malformed")}
(* The SUPPRESS re-read uses nothing but fire_count: one file per outcome *)
RereadFiles ==
  {f \in Files : f.fires = <<>> /\ f.position \in {EmptyDict, Pt(0, 64, 0)}}

DefaultSnapshot ==
  [keys |-> AllKeys \cup {"food"}, fire_count |-> 0, fires |-> <<>>,
   position |-> Pt(0, 0, 0), health |-> 20]
Parsed(file) ==
  [keys |-> file.keys, fire_count |-> file.fire_count, fires |-> file.fires,
   position |-> file.position, health |-> file.health]

ReadRaises(file) == file.kind # "json"
get_fire_data(file) == IF ReadRaises(file) THEN DefaultSnapshot ELSE Parsed(file)

DataGet(d, k, dflt) == IF k \in d.keys THEN d[k] ELSE dflt

Sq(n) == n * n
(* calculate_distance squared: the code compares the root with a threshold, *)
(* the model compares the square with the threshold's square.               *)
calculate_distance_sq_x_of_first(pos1, pos2) ==
  Sq(Get(pos1, "x", 0))
  + Sq(Get(pos1, "y", 0) - Get(pos2, "y", 0))
  + Sq(Get(pos1, "z", 0) - Get(pos2, "z", 0))
calculate_distance_sq(pos1, pos2) ==
  Sq(Get(pos1, "x", 0) - Get(pos2, "x", 0))
  + Sq(Get(pos1, "y", 0) - Get(pos2, "y", 0))
  + Sq(Get(pos1, "z", 0) - Get(pos2, "z", 0))

calculate_priority(fire_count) ==
  IF fire_count > 20 THEN "CRITICAL"
  ELSE IF fire_count > 10 THEN "HIGH"
  ELSE IF fire_count > 3 THEN "MEDIUM"
  ELSE IF fire_count > 0 THEN "LOW"
  ELSE "NONE"

send_command(name, kwargs) == [action |-> name, kwargs |-> kwargs]
log_event(event_type, event_data) == [type |-> event_type, data |-> event_data]

Aged(age, dur) == Min(age + dur, AgeCap)

-----------------------------------------------------------------------------
(* advanced_firebot.py: the main loop *)

StuckAfter(position) ==
  IF last_position # EmptyDict
  THEN IF calculate_distance_sq(position, last_position) < Sq(MoveThreshold)
       THEN stuck_counter + 1
       ELSE 0
  ELSE stuck_counter

IsStuck(position) == StuckAfter(position) > StuckLimit

FireDetectedLate(fire_count) == fire_count > 1
FireDetectedAtZero(fire_count) == fire_count >= 0
FireDetected(fire_count) == fire_count > 0

PatrolDueEarly(age) == age > PatrolInterval - 20
PatrolDue(age) == age > PatrolInterval

closestLast(fires) == fires[Len(fires)]
closest(fires) == fires[1]

InRangeInclusive(position, target) ==
  calculate_distance_sq(position, target) <= Sq(CloseRange)
InRangeFour(position, target) ==
  calculate_distance_sq(position, target) < Sq(4)
InRange(position, target) ==
  calculate_distance_sq(position, target) < Sq(CloseRange)

GotoCommand(target) == send_command("goto", Pt(target.x, target.y, target.z))

Wrote(name) == \E i \in DOMAIN cmds : cmds[i].action = name

(* The snapshot d shows the position within the close range of the first  *)
(* hazard of its list                                                      *)
NearFirstHazard(d) ==
  LET fires == DataGet(d, "fires", <<>>) IN
  Len(fires) > 0 /\ InRange(DataGet(d, "position", EmptyDict), fires[1])
TrackNear(near) ==
  near_read' = IF near_read = "untracked" THEN "untracked"
               ELSE IF near THEN "yes" ELSE near_read

advVars ==
  <<state, last_patrol_age, fires_suppressed_total, patrol_cycles, stuck_counter,
    last_position, reread, scenario_ticks, explore_age, snapshot_repeat>>
aiVars ==
  <<ai_pc, decision_count, training_samples_collected, attempts, fires_this_round,
    fires_suppressed, episode>>

chanVars ==
  <<command_file, py_pc, py_cmd, py_old, sent, js_pc, js_cmd, js_crashed, lost>>

fnVars == <<call, result, events_file, vlm, requests>>

learnVars == <<experience_buffer, learning_stats, learning_file, clock, tf_available>>
trainVars == <<training_data, split_dirs>>
mlVars == <<learnVars, trainVars>>

vars ==
  <<chanVars, fnVars, mlVars, prog, crash, state, last_patrol_age, fires_suppressed_total, patrol_cycles,
    stuck_counter, last_position, data, read_failed, reread, cmds, logged, elapsed,
    handler, ai_pc, decision_count, training_samples_collected, action, analysis,
    sample_label, attempts,
    fires_this_round, fires_suppressed, count, step, scenario_ticks, explore_age,
    snapshot_repeat, near_read, episode>>

(* online_learner.py line 50: 'last_retraining': None.  A time stamp is the  *)
(* string datetime.now().isoformat(); None and the strings are one record   *)
(* shape here.                                                              *)
NoneTime == [none |-> TRUE, iso |-> 0]
Labels == {"fire_detected", "no_fire"}
(* online_learner.py lines 41-44 *)
EmptyBuffers == [label \in Labels |-> <<>>]
(* online_learner.py lines 47-54; adaptive_threshold in hundredths *)
DefaultStats ==
  [total_experiences |-> 0, retraining_sessions |-> 0, last_retraining |-> NoneTime,
   confidence_history |-> <<>>, accuracy_improvement |-> 0, adaptive_threshold |-> 50]
NoFile == [exists |-> FALSE, document |-> <<>>]

NoRound == 0 - 1
InitAll(p, repeat, near, episodes) ==
  /\ prog = p
  /\ snapshot_repeat = repeat
  /\ near_read = near
  /\ episode = [tracked |-> episodes, decide |-> 0, round |-> NoRound]
  /\ crash = "none"
  /\ state = "PATROL"
  /\ last_patrol_age = AgeCap
  /\ fires_suppressed_total = 0
  /\ patrol_cycles = 0
  /\ stuck_counter = 0
  /\ last_position = EmptyDict
  /\ data = DefaultSnapshot
  /\ read_failed = FALSE
  /\ reread = NoReread
  /\ cmds = <<>>
  /\ logged = <<>>
  /\ elapsed = 0
  /\ handler = "none"
  /\ ai_pc = "decide"
  /\ decision_count = 0
  /\ training_samples_collected = 0
  /\ action = "none"
  /\ sample_label = "none"
  /\ analysis = [smoke_visible |-> FALSE, glow_visible |-> FALSE, lava_visible |-> FALSE,
                  visual_matches |-> FALSE]
  /\ attempts = 0
  /\ fires_this_round = 0
  /\ fires_suppressed = 0
  /\ count = 0
  /\ step = 0
  /\ scenario_ticks = 0
  /\ explore_age = AgeCap
  /\ command_file = [exists |-> FALSE, seq |-> 0, text |-> <<>>]
  /\ py_pc = "idle"
  /\ py_cmd = [action |-> "none", kwargs |-> EmptyDict]
  /\ py_old = 0
  /\ sent = 0
  /\ js_pc = "idle"
  /\ js_cmd = [seq |-> 0, items |-> {}]
  /\ js_crashed = FALSE
  /\ lost = {}
  /\ call = [fn |-> "none"]  \* NoCall
  /\ result = [none |-> TRUE]
  /\ events_file = <<>>
  /\ vlm = "unset"
  /\ requests = 0
  /\ experience_buffer = EmptyBuffers
  /\ learning_stats = DefaultStats
  /\ learning_file = NoFile
  /\ clock = 0
  /\ tf_available \in (IF p = "learner" THEN BOOLEAN ELSE {TRUE})
  /\ training_data = [label \in Labels \cup {"uncertain"} |-> <<>>]
  /\ split_dirs = [train |-> {}, val |-> {}]

InitWith(p, repeat, near) == InitAll(p, repeat, near, FALSE)
InitProg(p) == InitWith(p, "untracked", "untracked")

(* lines 104-119: what every tick does before it dispatches on the state *)
AdvRead(file) ==
  /\ prog = "advanced"
  /\ crash = "none"
  /\ data' = get_fire_data(file)
  /\ read_failed' = ReadRaises(file)
  /\ last_position' = DataGet(data', "position", EmptyDict)
  /\ UNCHANGED <<prog, crash, aiVars, chanVars, fnVars, mlVars, action, analysis, sample_label, count, step>>

(* The history variables follow the tick's outcome *)
AdvHistory ==
  /\ scenario_ticks' =
       IF scenario_ticks < ScenarioLen /\ DataGet(data', "fire_count", 0) = 0
       THEN scenario_ticks + 1
       ELSE ScenarioOver
  /\ explore_age' =
       IF scenario_ticks' = ScenarioOver THEN AgeCap
       ELSE IF \E i \in DOMAIN cmds' : cmds'[i].action = "patrol" THEN Aged(0, elapsed')
       ELSE Aged(explore_age, elapsed')
  /\ snapshot_repeat' =
       IF snapshot_repeat = "untracked" THEN "untracked"
       ELSE IF handler # "none" /\ data' = data THEN "same"
       ELSE "changed"
  /\ TrackNear(NearFirstHazard(data'))

(* lines 121-127: stuck recovery, no state handling *)
AdvStuck(file) ==
  /\ IsStuck(DataGet(get_fire_data(file), "position", EmptyDict))
  /\ AdvRead(file)
  /\ cmds' = <<send_command("patrol", EmptyDict)>>
  /\ handler' = "stuck"
  /\ stuck_counter' = 0
  /\ logged' = <<>>
  /\ reread' = NoReread
  /\ elapsed' = SendSleep + StuckSleep
  /\ last_patrol_age' = Aged(last_patrol_age, elapsed')
  /\ UNCHANGED <<state, fires_suppressed_total, patrol_cycles>>
  /\ AdvHistory

(* lines 141-160 *)
AdvPatrol(file) ==
  /\ state = "PATROL"
  /\ AdvRead(file)
  /\ ~IsStuck(DataGet(data', "position", EmptyDict))
  /\ handler' = state
  /\ stuck_counter' = StuckAfter(DataGet(data', "position", EmptyDict))
  /\ reread' = NoReread
  /\ LET fire_count == DataGet(data', "fire_count", 0) IN
     IF FireDetected(fire_count)
     THEN /\ logged' = <<log_event("fire_detected",
                          [fire_count |-> fire_count,
                           priority |-> calculate_priority(fire_count),
                           position |-> DataGet(data', "position", EmptyDict)])>>
          /\ state' = "ASSESS"
          /\ cmds' = <<>>
          /\ elapsed' = TickSleep
          /\ last_patrol_age' = Aged(last_patrol_age, elapsed')
          /\ UNCHANGED patrol_cycles
     ELSE /\ logged' = <<>>
          /\ state' = "PATROL"
          /\ IF PatrolDue(last_patrol_age)
             THEN /\ patrol_cycles < MaxPatrolCycles
                  /\ cmds' = <<send_command("patrol", EmptyDict)>>
                  /\ patrol_cycles' = patrol_cycles + 1
                  /\ elapsed' = SendSleep + TickSleep
                  /\ last_patrol_age' = Aged(0, elapsed')
             ELSE /\ cmds' = <<>>
                  /\ elapsed' = TickSleep
                  /\ last_patrol_age' = Aged(last_patrol_age, elapsed')
                  /\ UNCHANGED patrol_cycles
  /\ UNCHANGED fires_suppressed_total
  /\ AdvHistory

(* lines 168-183 *)
StateAfterAssessAlwaysResponds(fires) == "RESPOND"
StateAfterAssess(fires) == IF Len(fires) = 0 THEN "ASSESS" ELSE "RESPOND"

(* lines 165-183 *)
AdvAssess(file) ==
  /\ state = "ASSESS"
  /\ AdvRead(file)
  /\ ~IsStuck(DataGet(data', "position", EmptyDict))
  /\ handler' = state
  /\ stuck_counter' = StuckAfter(DataGet(data', "position", EmptyDict))
  /\ reread' = NoReread
  /\ cmds' = <<>>
  /\ logged' = <<>>
  /\ LET fires == DataGet(data', "fires", <<>>) IN
     /\ state' = StateAfterAssess(fires)
     /\ elapsed' = IF Len(fires) = 0 THEN AssessWait ELSE TickSleep
  /\ last_patrol_age' = Aged(last_patrol_age, elapsed')
  /\ UNCHANGED <<fires_suppressed_total, patrol_cycles>>
  /\ AdvHistory

(* lines 188-206 *)
AdvRespond(file) ==
  /\ state = "RESPOND"
  /\ AdvRead(file)
  /\ ~IsStuck(DataGet(data', "position", EmptyDict))
  /\ handler' = state
  /\ stuck_counter' = StuckAfter(DataGet(data', "position", EmptyDict))
  /\ reread' = NoReread
  /\ logged' = <<>>
  /\ LET fires == DataGet(data', "fires", <<>>)
         position == DataGet(data', "position", EmptyDict)
     IN
     IF Len(fires) = 0
     THEN /\ state' = "PATROL"
          /\ cmds' = <<>>
          /\ elapsed' = 0
     ELSE IF InRange(position, closest(fires))
     THEN /\ state' = "SUPPRESS"
          /\ cmds' = <<>>
          /\ elapsed' = TickSleep
     ELSE /\ state' = "RESPOND"
          /\ cmds' = <<GotoCommand(closest(fires))>>
          /\ elapsed' = SendSleep + GotoSleep + TickSleep
  /\ last_patrol_age' = Aged(last_patrol_age, elapsed')
  /\ UNCHANGED <<fires_suppressed_total, patrol_cycles>>
  /\ AdvHistory

SuppressCommands ==
  <<send_command("equip_weapon", EmptyDict), send_command("suppress", EmptyDict)>>

(* lines 243-248 *)
StateAfterSuppressResponds(remaining) == IF remaining > 0 THEN "RESPOND" ELSE "PATROL"
StateAfterSuppress(remaining) == IF remaining > 0 THEN "ASSESS" ELSE "PATROL"

(* lines 211-248 *)
AdvSuppress(file, file2) ==
  /\ state = "SUPPRESS"
  /\ AdvRead(file)
  /\ ~IsStuck(DataGet(data', "position", EmptyDict))
  /\ handler' = state
  /\ stuck_counter' = StuckAfter(DataGet(data', "position", EmptyDict))
  /\ cmds' = SuppressCommands
  /\ LET initial_count == DataGet(data', "fire_count", 0)
         remaining == DataGet(get_fire_data(file2), "fire_count", 0)
         destroyed == initial_count - remaining
     IN
     /\ reread' = remaining
     /\ IF destroyed > 0
        THEN /\ fires_suppressed_total + destroyed <= MaxTotal
             /\ fires_suppressed_total' = fires_suppressed_total + destroyed
             /\ logged' = <<log_event("fire_suppressed",
                              [destroyed |-> destroyed, remaining |-> remaining,
                               total |-> fires_suppressed_total'])>>
        ELSE /\ logged' = <<>>
             /\ UNCHANGED fires_suppressed_total
     /\ state' = StateAfterSuppress(remaining)
  /\ elapsed' = SendSleep + EquipSleep + SendSleep + SuppressWait + TickSleep
  /\ last_patrol_age' = Aged(last_patrol_age, elapsed')
  /\ UNCHANGED patrol_cycles
  /\ AdvHistory

AdvNext ==
  \/ \E file \in Files : AdvStuck(file)
  \/ \E file \in Files : AdvPatrol(file)
  \/ \E file \in Files : AdvAssess(file)
  \/ \E file \in Files : AdvRespond(file)
  \/ \E file \in Files, file2 \in RereadFiles : AdvSuppress(file, file2)

(* The decision state machine of advanced_firebot.py *)
Spec == InitProg("advanced") /\ [][AdvNext]_vars

(* The same loop, which never stops iterating by itself (while True) *)
FairSpec == Spec /\ WF_vars(AdvNext)

(* The same loop, recording whether a tick re-read the previous snapshot *)
SpecTracked == InitWith("advanced", "changed", "untracked") /\ [][AdvNext]_vars

-----------------------------------------------------------------------------
(* advanced_ai_firebot.py *)

(* A model response, as far as the substring tests of                      *)
(* parse_multimodal_response can tell: the action tokens that occur in     *)
(* response.upper(); whether 'YES' occurs in the response as written       *)
(* ("exact"), only in another letter case ("other_case") or not at all     *)
(* ("absent"); and which '<FLAG>: YES' texts occur in response.upper().    *)
Response(tokens, yes, smoke, glow, lava, matches) ==
  [tokens |-> tokens, yes |-> yes, smoke |-> smoke, glow |-> glow, lava |-> lava,
   matches |-> matches]

(* line 200: the text returned when ollama.generate raises *)
ErrorFallbackText == Response({"PATROL"}, "absent", FALSE, FALSE, FALSE, FALSE)

Returns(r) == [raises |-> FALSE, response |-> r]
Raises == [raises |-> TRUE, response |-> ErrorFallbackText]

ask_qwen_multimodal(outcome) ==
  IF outcome.raises THEN ErrorFallbackText ELSE outcome.response

CompassTurns == {"TURN_NORTH", "TURN_SOUTH", "TURN_EAST", "TURN_WEST"}

parse_action_patrol_first(r) ==
  IF "PATROL" \in r.tokens THEN "patrol"
  ELSE IF "SUPPRESS_FIRE" \in r.tokens THEN "suppress"
  ELSE IF "TURN_LEFT" \in r.tokens THEN "turn_left"
  ELSE IF "TURN_RIGHT" \in r.tokens THEN "turn_right"
  ELSE IF r.tokens \cap CompassTurns # {} THEN "turn_right"
  ELSE IF "MOVE_FORWARD" \in r.tokens THEN "move_forward"
  ELSE IF "SCAN_360" \in r.tokens THEN "scan_360"
  ELSE "patrol"
parse_action(r) ==
  IF "SUPPRESS_FIRE" \in r.tokens THEN "suppress"
  ELSE IF "TURN_LEFT" \in r.tokens THEN "turn_left"
  ELSE IF "TURN_RIGHT" \in r.tokens THEN "turn_right"
  ELSE IF r.tokens \cap CompassTurns # {} THEN "turn_right"
  ELSE IF "MOVE_FORWARD" \in r.tokens THEN "move_forward"
  ELSE IF "SCAN_360" \in r.tokens THEN "scan_360"
  ELSE "patrol"

parse_analysis(r) ==
  [smoke_visible |-> r.yes = "exact" /\ r.smoke,
   glow_visible |-> r.yes = "exact" /\ r.glow,
   lava_visible |-> r.yes = "exact" /\ r.lava,
   visual_matches |-> r.matches]

(* lines 202-233 *)
parse_multimodal_response(r) == [action |-> parse_action(r), analysis |-> parse_analysis(r)]

(* lines 249-271: the label save_training_sample gives the sample *)
training_label_needs_both_signs(fire_count, ai_analysis) ==
  LET has_visual_fire_signs == ai_analysis.glow_visible /\ ai_analysis.lava_visible
      sensor_visual_match == ai_analysis.visual_matches
  IN IF fire_count > 0 /\ (has_visual_fire_signs \/ sensor_visual_match)
     THEN "fire_detected"
     ELSE IF fire_count = 0 /\ ~has_visual_fire_signs THEN "no_fire"
     ELSE "uncertain"
training_label(fire_count, ai_analysis) ==
  LET has_visual_fire_signs == ai_analysis.glow_visible \/ ai_analysis.lava_visible
      sensor_visual_match == ai_analysis.visual_matches
  IN IF fire_count > 0 /\ (has_visual_fire_signs \/ sensor_visual_match)
     THEN "fire_detected"
     ELSE IF fire_count = 0 /\ ~has_visual_fire_signs THEN "no_fire"
     ELSE "uncertain"

(* lines 239-290: the row save_training_sample appends to the training log *)
save_training_sample(fire_count, ai_analysis, name, decision_num) ==
  [decision_number |-> decision_num,
   label |-> training_label(fire_count, ai_analysis),
   fire_count_sensor |-> fire_count,
   smoke_visible |-> ai_analysis.smoke_visible,
   glow_visible |-> ai_analysis.glow_visible,
   lava_visible |-> ai_analysis.lava_visible,
   visual_matches_sensors |-> ai_analysis.visual_matches,
   action_taken |-> name]

(* The model outcomes the loop is run on: the call raises, or answers with *)
(* one action token (or none); an answer that asks to suppress also        *)
(* reports the glow it saw.                                                *)
LoopOutcomes ==
  {Raises, Returns(Response({}, "absent", FALSE, FALSE, FALSE, FALSE)),
   Returns(Response({"SUPPRESS_FIRE"}, "exact", FALSE, TRUE, FALSE, TRUE))}
  \cup {Returns(Response({t}, "absent", FALSE, FALSE, FALSE, FALSE)) :
          t \in {"TURN_LEFT", "TURN_RIGHT", "TURN_NORTH", "MOVE_FORWARD", "SCAN_360",
                 "PATROL"}}

DecisionEvent(number, name, fire_count, visual, total) ==
  log_event("multimodal_decision",
            [decision_number |-> number, action |-> name,
             sensor_fire_count |-> fire_count, visual_analysis |-> visual,
             fires_suppressed_total |-> total])

NeedsNavigation(position, target) ==
  calculate_distance_sq(position, target) > Sq(NavigateRange)
AiInRange(position, target) == ~NeedsNavigation(position, target)
AiNearFirstHazard(d) ==
  LET fires == DataGet(d, "fires", <<>>) IN
  Len(fires) > 0 /\ AiInRange(DataGet(d, "position", EmptyDict), fires[1])

AiFrame ==
  UNCHANGED <<prog, crash, advVars, chanVars, fnVars, mlVars, elapsed, count, step>>

(* lines 346-394, 396-401 and 457-494: one decision of the outer loop, up  *)
(* to the start of the inner suppression loop when the action is suppress  *)
AiDecide(file, outcome) ==
  /\ prog = "ai"
  /\ crash = "none"
  /\ ai_pc = "decide"
  /\ decision_count < MaxDecisions
  /\ decision_count' = decision_count + 1
  /\ data' = get_fire_data(file)
  /\ read_failed' = ReadRaises(file)
  /\ handler' = "decide"
  /\ LET scan == IF decision_count' % 3 = 0
                 THEN <<send_command("scan_360", EmptyDict)>> ELSE <<>>
         fire_count == DataGet(data', "fire_count", 0)
         ai_response == ask_qwen_multimodal(outcome)
     IN
     /\ action' = parse_action(ai_response)
     /\ analysis' = parse_analysis(ai_response)
     /\ sample_label' = training_label(fire_count, analysis')
     /\ training_samples_collected' = training_samples_collected + 1
     /\ IF action' = "suppress"
        THEN /\ cmds' = scan \o <<send_command("stop", EmptyDict)>>
             /\ ai_pc' = "round"
             /\ attempts' = 0
             /\ fires_this_round' = 0
             /\ logged' = <<>>
        ELSE /\ cmds' = scan \o <<send_command(action', EmptyDict)>>
             /\ ai_pc' = "decide"
             /\ logged' = <<DecisionEvent(decision_count', action', fire_count, analysis',
                                          fires_suppressed)>>
             /\ UNCHANGED <<attempts, fires_this_round>>
  /\ UNCHANGED fires_suppressed
  /\ episode' = IF episode.tracked
                THEN [episode EXCEPT !.decide = DataGet(data', "fire_count", 0),
                                     !.round = NoRound]
                ELSE episode
  /\ TrackNear(AiNearFirstHazard(data'))
  /\ AiFrame

(* lines 421-430 and 452-453: the round goes on to suppress *)
FightsWhateverCount(fire_count, fires) == Len(fires) > 0
Fights(fire_count, fires) == fire_count # 0 /\ Len(fires) > 0

(* lines 408-455 and 482-494: one round of the inner suppression loop, and *)
(* the end of the decision when the loop ends with this round              *)
AiRound(file) ==
  /\ prog = "ai"
  /\ crash = "none"
  /\ ai_pc = "round"
  /\ attempts < max_attempts
  /\ attempts' = attempts + 1
  /\ data' = get_fire_data(file)
  /\ read_failed' = ReadRaises(file)
  /\ handler' = "round"
  /\ sample_label' = "none"
  /\ LET fires == DataGet(data', "fires", <<>>)
         fire_count == DataGet(data', "fire_count", 0)
         position == DataGet(data', "position", EmptyDict)
         scan == <<send_command("scan_360", EmptyDict)>>
         fights == Fights(fire_count, fires)
         ends == ~fights \/ attempts' >= max_attempts
     IN
     /\ IF fights
        THEN LET closest_fire == fires[1] IN
             /\ cmds' = scan
                  \o (IF NeedsNavigation(position, closest_fire)
                      THEN <<GotoCommand(closest_fire)>> ELSE <<>>)
                  \o <<send_command("suppress", EmptyDict)>>
             /\ fires_this_round' = fires_this_round + 1
        ELSE /\ cmds' = scan
             /\ UNCHANGED fires_this_round
     /\ IF ends
        THEN /\ fires_suppressed + fires_this_round' <= MaxAiTotal
             /\ fires_suppressed' = fires_suppressed + fires_this_round'
             /\ ai_pc' = "decide"
             /\ logged' = <<DecisionEvent(decision_count, action, fire_count, analysis,
                                          fires_suppressed')>>
        ELSE /\ ai_pc' = "round"
             /\ logged' = <<>>
             /\ UNCHANGED fires_suppressed
  /\ UNCHANGED <<decision_count, training_samples_collected, action, analysis>>
  /\ episode' = IF episode.tracked /\ episode.round = NoRound
                THEN [episode EXCEPT !.round = DataGet(data', "fire_count", 0)]
                ELSE episode
  /\ TrackNear(AiNearFirstHazard(data'))
  /\ AiFrame

AiNext ==
  \/ \E file \in Files, outcome \in LoopOutcomes : AiDecide(file, outcome)
  \/ \E file \in Files : AiRound(file)

(* lines 346-371 and 190-196: a decision whose ollama.generate call, made  *)
(* without a timeout, gets no response: the loop stays inside the call     *)
AiHang(file) ==
  /\ prog = "ai"
  /\ crash = "none"
  /\ ai_pc = "decide"
  /\ decision_count < MaxDecisions
  /\ decision_count' = decision_count + 1
  /\ data' = get_fire_data(file)
  /\ read_failed' = ReadRaises(file)
  /\ handler' = "decide"
  /\ cmds' = IF decision_count' % 3 = 0
             THEN <<send_command("scan_360", EmptyDict)>> ELSE <<>>
  /\ logged' = <<>>
  /\ ai_pc' = "blocked"
  /\ UNCHANGED <<training_samples_collected, action, analysis, sample_label, attempts,
                 fires_this_round, fires_suppressed, episode>>
  /\ TrackNear(AiNearFirstHazard(data'))
  /\ AiFrame

AiCallNext ==
  \/ AiNext
  \/ \E file \in Files : AiHang(file)

(* advanced_ai_firebot.py: the main loop, every model call answering *)
SpecAi == InitProg("ai") /\ [][AiNext]_vars

(* The same, recording the fire_count a suppression episode started with *)
SpecAiEpisodes ==
  InitAll("ai", "untracked", "untracked", TRUE) /\ [][AiNext]_vars

(* advanced_ai_firebot.py, the model call returning, raising or getting no *)
(* response; the loop (while True) never stops iterating by itself         *)
SpecAiCalls == InitProg("ai") /\ [][AiCallNext]_vars /\ WF_vars(AiCallNext)

-----------------------------------------------------------------------------
(* auto_firebot.py, collect_training_data.py: the snapshot used when the   *)
(* sensor file cannot be read                                              *)
NoFiresSnapshot ==
  [keys |-> {"fires"}, fire_count |-> 0, fires |-> <<>>, position |-> EmptyDict,
   health |-> 20]

OtherFrame ==
  UNCHANGED <<prog, advVars, aiVars, chanVars, fnVars, mlVars, elapsed>>

(* auto_firebot.py lines 84-88: no try/except; only a missing file is handled *)
AutoReadRaises(file) == file.kind = "malformed"
auto_get_fire_data(file) ==
  IF file.kind = "missing" THEN NoFiresSnapshot ELSE Parsed(file)

(* auto_firebot.py lines 93-106: one iteration of the patrol loop *)
AutoTick(file) ==
  /\ prog = "auto"
  /\ crash = "none"
  /\ handler' = "auto"
  /\ read_failed' = (file.kind # "json")
  /\ IF AutoReadRaises(file)
     THEN /\ crash' = "sensor"
          /\ cmds' = <<>>
          /\ UNCHANGED data
     ELSE /\ data' = auto_get_fire_data(file)
          /\ IF "fires" \notin data'.keys
             THEN /\ crash' = "sensor"
                  /\ cmds' = <<>>
             ELSE /\ UNCHANGED crash
                  /\ IF Len(data'.fires) > 0
                     THEN LET fire == data'.fires[1] IN
                          cmds' = <<GotoCommand(fire), send_command("suppress", EmptyDict)>>
                     ELSE cmds' = <<send_command("patrol", EmptyDict)>>
  /\ logged' = <<>>
  /\ TrackNear(~AutoReadRaises(file) /\ NearFirstHazard(auto_get_fire_data(file)))
  /\ UNCHANGED <<action, analysis, sample_label, count, step>>
  /\ OtherFrame

(* collect_training_data.py lines 19-24 *)
collect_get_fire_data(file) ==
  IF ReadRaises(file) THEN NoFiresSnapshot ELSE Parsed(file)

(* collect_training_data.py lines 30-53: one iteration of the collection loop *)
CollectTick(file) ==
  /\ prog = "collect"
  /\ crash = "none"
  /\ count < SampleTarget
  /\ count < MaxSamples
  /\ handler' = "collect"
  /\ read_failed' = ReadRaises(file)
  /\ data' = collect_get_fire_data(file)
  /\ cmds' = <<>>
  /\ IF "fires" \notin data'.keys
     THEN /\ crash' = "sensor"
          /\ logged' = <<>>
          /\ UNCHANGED <<sample_label, count>>
     ELSE /\ sample_label' = IF Len(data'.fires) > 0 THEN "fire" ELSE "no_fire"
          /\ logged' = <<[id |-> count, label |-> sample_label',
                          fire_count |-> Len(data'.fires)]>>
          /\ count' = count + 1
          /\ UNCHANGED crash
  /\ UNCHANGED <<action, analysis, step, near_read>>
  /\ OtherFrame

-----------------------------------------------------------------------------
(* testing_files/minecraft_firebot_simple.py *)

(* A model answer, as far as decide_action can tell: 'YES' occurs in it,   *)
(* 'fire' occurs in its lower case, 'FORWARD' occurs in its upper case     *)
Answer(yes, fire, forward) == [yes |-> yes, fire |-> fire, forward |-> forward]
AllClear == Answer(FALSE, FALSE, FALSE)
AskOutcomes ==
  {[raises |-> TRUE, response |-> AllClear]}
  \cup {[raises |-> FALSE, response |-> Answer(y, f, w)] : y, f, w \in BOOLEAN}

send_bot_command(command) == [action |-> command, kwargs |-> EmptyDict]

(* lines 116-126: the scan result; the default when the file cannot be read *)
ScanDefault ==
  [keys |-> {"fire_count", "positions"}, fire_count |-> 0, fires |-> <<>>,
   position |-> EmptyDict, health |-> 20]
scan_for_fire(file) == IF ReadRaises(file) THEN ScanDefault ELSE Parsed(file)

decide_action_asks_model_first(ai_response, fire_count) ==
  IF ai_response.forward THEN "forward"
  ELSE IF fire_count > 0 THEN "investigate"
  ELSE IF ai_response.yes /\ ai_response.fire THEN "investigate"
  ELSE "forward"
decide_action(ai_response, fire_count) ==
  IF fire_count > 0 THEN "investigate"
  ELSE IF ai_response.yes /\ ai_response.fire THEN "investigate"
  ELSE IF ai_response.forward THEN "forward"
  ELSE "forward"

execute_action(name) ==
  IF name = "forward" THEN <<send_bot_command("forward")>>
  ELSE IF name = "investigate"
  THEN <<send_bot_command("forward"), send_bot_command("forward")>>
  ELSE IF name = "left" THEN <<send_bot_command("left")>>
  ELSE IF name = "right" THEN <<send_bot_command("right")>>
  ELSE <<>>

(* lines 220-245: one step of the main loop *)
SimpleStep(file, outcome) ==
  /\ prog = "simple"
  /\ crash = "none"
  /\ step < MaxSteps
  /\ step' = step + 1
  /\ handler' = "simple"
  /\ read_failed' = ReadRaises(file)
  /\ data' = scan_for_fire(file)
  /\ logged' = <<>>
  /\ LET scan == <<send_bot_command("scan")>> IN
     IF "fire_count" \notin data'.keys
     THEN /\ crash' = "sensor"
          /\ cmds' = scan
          /\ UNCHANGED action
     ELSE IF data'.fire_count > 0 /\ outcome.raises
     THEN /\ crash' = "model"
          /\ cmds' = scan
          /\ UNCHANGED action
     ELSE LET ai_response == IF data'.fire_count > 0 THEN outcome.response ELSE AllClear
          IN /\ action' = decide_action(ai_response, data'.fire_count)
             /\ cmds' = scan \o execute_action(action')
             /\ UNCHANGED crash
  /\ UNCHANGED <<analysis, sample_label, count, near_read>>
  /\ OtherFrame

VariantsNext ==
  \/ AdvNext
  \/ AiNext
  \/ \E file \in Files : AutoTick(file)
  \/ \E file \in Files : CollectTick(file)
  \/ \E file \in Files, outcome \in AskOutcomes : SimpleStep(file, outcome)

(* minecraft_firebot_simple.py: the main loop *)
SpecSimple ==
  /\ InitProg("simple")
  /\ [][\E file \in Files, outcome \in AskOutcomes : SimpleStep(file, outcome)]_vars

(* The three variants that navigate and suppress, recording whether a     *)
(* snapshot with the position in close range of its first hazard was read  *)
SpecApproach ==
  /\ \E p \in {"advanced", "ai", "auto"} : InitWith(p, "untracked", "no")
  /\ [][AdvNext \/ AiNext \/ \E file \in Files : AutoTick(file)]_vars

(* Any one of the loop variants *)
SpecVariants ==
  /\ \E p \in {"advanced", "ai", "auto", "collect", "simple"} : InitProg(p)
  /\ [][VariantsNext]_vars

-----------------------------------------------------------------------------
(* The command channel: send_command writes command.json, the command       *)
(* handler of the embedded autobot.js reads and deletes it.                 *)

loopVars ==
  <<prog, crash, advVars, aiVars, data, read_failed, cmds, logged, elapsed, handler,
    action, analysis, sample_label, count, step, near_read>>

(* JSON text as a sequence of tokens: the braces and one token per          *)
(* "key": value pair (a string value in str, a number in num).              *)
Tok(kind, key, str, num) == [kind |-> kind, key |-> key, str |-> str, num |-> num]
Item(key, str, num) == [key |-> key, str |-> str, num |-> num]

KeyOrder(keys) == SelectSeq(<<"x", "y", "z">>, LAMBDA k : k \in keys)

(* json.dump(cmd, f): the text written *)
json_dump(cmd) ==
  LET ks == KeyOrder(cmd.kwargs.keys) IN
  <<Tok("open", "", "", 0), Tok("pair", "action", cmd.action, 0)>>
    \o [i \in 1..Len(ks) |-> Tok("pair", ks[i], "", cmd.kwargs[ks[i]])]
    \o <<Tok("close", "", "", 0)>>

(* json.load / JSON.parse: raises unless the text is one complete object *)
JsonValid(text) ==
  /\ Len(text) >= 2
  /\ text[1].kind = "open"
  /\ text[Len(text)].kind = "close"
  /\ \A i \in 2..(Len(text) - 1) : text[i].kind = "pair"
json_load(text) ==
  IF JsonValid(text)
  THEN [raises |-> FALSE,
        items |-> {Item(text[i].key, text[i].str, text[i].num) : i \in 2..(Len(text) - 1)}]
  ELSE [raises |-> TRUE, items |-> {}]

(* the dictionary {'action': action, **kwargs} as its set of items *)
DictItems(cmd) ==
  {Item("action", cmd.action, 0)}
    \cup {Item(k, "", cmd.kwargs[k]) : k \in cmd.kwargs.keys}

(* open('command.json', 'w') truncates; the text is then written from offset 0 *)
TruncateKeeps(text) == text
Truncate(text) == <<>>
Overwrite(old, new) == new \o SubSeq(old, Len(new) + 1, Len(old))

Commands ==
  {send_command(name, Dict(keys, 8, 64, 0)) :
     name \in {"patrol", "suppress", "goto"}, keys \in SUBSET {"x", "y", "z"}}
  \cup {GotoCommand(f) : f \in FirePoints}

(* send_command, up to the open: the file exists and is empty *)
PyOpen(cmd) ==
  /\ prog = "channel"
  /\ py_pc = "idle"
  /\ sent < MaxSends
  /\ sent' = sent + 1
  /\ py_cmd' = cmd
  /\ py_old' = Len(command_file.text)
  /\ command_file' = [exists |-> TRUE, seq |-> sent', text |-> Truncate(command_file.text)]
  /\ py_pc' = "writing"
  /\ UNCHANGED <<js_pc, js_cmd, js_crashed, lost, loopVars, fnVars, mlVars>>

(* send_command, json.dump and the close: the text reaches the file the     *)
(* call opened; if that file was unlinked meanwhile nothing is left of it   *)
PyClose ==
  /\ prog = "channel"
  /\ py_pc = "writing"
  /\ command_file' =
       IF command_file.exists /\ command_file.seq = sent
       THEN [command_file EXCEPT !.text = Overwrite(command_file.text, json_dump(py_cmd))]
       ELSE command_file
  /\ py_pc' = "idle"
  /\ UNCHANGED <<py_cmd, py_old, sent, js_pc, js_cmd, js_crashed, lost, loopVars, fnVars, mlVars>>

PyNext ==
  \/ \E cmd \in Commands : PyOpen(cmd)
  \/ PyClose

(* autobot.js line 31: if (!fs.existsSync('command.json')) return; *)
JsExists ==
  /\ prog = "channel"
  /\ ~js_crashed
  /\ js_pc = "idle"
  /\ command_file.exists
  /\ js_pc' = "exists"
  /\ UNCHANGED <<command_file, py_pc, py_cmd, py_old, sent, js_cmd, js_crashed, lost, loopVars, fnVars, mlVars>>

(* autobot.js line 33: JSON.parse(fs.readFileSync(...)), not in a try block *)
JsRead ==
  /\ prog = "channel"
  /\ ~js_crashed
  /\ js_pc = "exists"
  /\ LET parsed == json_load(command_file.text) IN
     IF ~command_file.exists \/ parsed.raises
     THEN /\ js_crashed' = TRUE
          /\ UNCHANGED <<js_pc, js_cmd>>
     ELSE /\ js_cmd' = [seq |-> command_file.seq, items |-> parsed.items]
          /\ js_pc' = "read"
          /\ UNCHANGED js_crashed
  /\ UNCHANGED <<command_file, py_pc, py_cmd, py_old, sent, lost, loopVars, fnVars, mlVars>>

(* autobot.js lines 34-53: fs.unlinkSync('command.json'), then the command  *)
(* read is carried out                                                      *)
JsUnlink ==
  /\ prog = "channel"
  /\ ~js_crashed
  /\ js_pc = "read"
  /\ IF command_file.exists
     THEN /\ command_file' = [exists |-> FALSE, seq |-> 0, text |-> <<>>]
          /\ lost' = IF command_file.seq # js_cmd.seq
                     THEN lost \cup {command_file.seq} ELSE lost
          /\ js_pc' = "idle"
          /\ UNCHANGED js_crashed
     ELSE /\ js_crashed' = TRUE
          /\ UNCHANGED <<command_file, lost, js_pc>>
  /\ UNCHANGED <<py_pc, py_cmd, py_old, sent, js_cmd, loopVars, fnVars, mlVars>>

JsNext == JsExists \/ JsRead \/ JsUnlink

(* send_command alone, one call after another *)
SpecWriter == InitProg("channel") /\ [][PyNext]_vars

(* send_command and the command handler, two processes with no lock *)
SpecChannel == InitProg("channel") /\ [][PyNext \/ JsNext]_vars

-----------------------------------------------------------------------------
(* The helper functions called on their own, once, on an argument drawn    *)
(* from a bounded set.                                                     *)
FnFrame == UNCHANGED <<loopVars, chanVars, mlVars, events_file, vlm, requests>>
NoCall == [fn |-> "none"]

(* Arguments of calculate_distance: a dictionary with any of the keys x, y, *)
(* z, whose values are numbers, except for the keys in `null`, which hold   *)
(* JSON null (None).                                                        *)
Coords == (0 - MaxCoord)..MaxCoord
CoordDicts ==
  {Dict(k, x, y, z) : k \in SUBSET {"x", "y", "z"}, x \in Coords, y \in Coords, z \in Coords}
DistanceArgs ==
  UNION {{[pos |-> d, null |-> n] : n \in {{}} \cup {{k} : k \in d.keys}} : d \in CoordDicts}

(* None - number raises TypeError inside the try *)
DistanceRaises(pos1, pos2) == pos1.null \cup pos2.null # {}
(* The square of what calculate_distance returns (the root is strictly     *)
(* increasing and maps 0 to 0).                                            *)
calculate_distance(pos1, pos2) ==
  IF DistanceRaises(pos1, pos2) THEN 0 ELSE calculate_distance_sq(pos1.pos, pos2.pos)

CallDistance(pos1, pos2) ==
  /\ prog = "functions" /\ call = NoCall
  /\ call' = [fn |-> "calculate_distance", pos1 |-> pos1, pos2 |-> pos2]
  /\ result' = [value |-> calculate_distance(pos1, pos2)]
  /\ FnFrame

(* Responses: every set of action tokens with every combination of the    *)
(* flag texts; a flag text contains YES, so a response in which one occurs *)
(* holds YES in some letter case.                                          *)
ActionTokens ==
  {"SUPPRESS_FIRE", "TURN_LEFT", "TURN_RIGHT", "MOVE_FORWARD", "SCAN_360", "PATROL"}
  \cup CompassTurns
Responses ==
  {r \in {Response(t, yes, smoke, glow, lava, matches) :
             t \in SUBSET ActionTokens, yes \in {"absent", "exact", "other_case"},
             smoke \in BOOLEAN, glow \in BOOLEAN, lava \in BOOLEAN, matches \in BOOLEAN} :
     (r.smoke \/ r.glow \/ r.lava \/ r.matches) => r.yes # "absent"}

CallParse(r) ==
  /\ prog = "functions" /\ call = NoCall
  /\ call' = [fn |-> "parse_multimodal_response", response |-> r]
  /\ result' = parse_multimodal_response(r)
  /\ FnFrame

Actions == {"suppress", "turn_left", "turn_right", "move_forward", "scan_360", "patrol"}
Analyses ==
  [{"smoke_visible", "glow_visible", "lava_visible", "visual_matches"} -> BOOLEAN]

CallSave(fire_count, ai_analysis, name, decision_num) ==
  /\ prog = "functions" /\ call = NoCall
  /\ call' = [fn |-> "save_training_sample", fire_count |-> fire_count,
              ai_analysis |-> ai_analysis, action |-> name, decision_num |-> decision_num]
  /\ result' = save_training_sample(fire_count, ai_analysis, name, decision_num)
  /\ FnFrame

(* One call in a run: the arguments are enumerated only while none is made *)
FunctionsNext ==
  /\ call = NoCall
  /\ \/ \E pos1 \in DistanceArgs, pos2 \in DistanceArgs : CallDistance(pos1, pos2)
     \/ \E r \in Responses : CallParse(r)
     \/ \E fire_count \in 0..MaxCount, ai_analysis \in Analyses, name \in Actions,
           decision_num \in 1..MaxDecisions :
          CallSave(fire_count, ai_analysis, name, decision_num)

SpecFunctions == InitProg("functions") /\ [][FunctionsNext]_vars

-----------------------------------------------------------------------------
(* log_event and logs/events.jsonl. The text of the file is a sequence of  *)
(* tokens: a JSON object (its keys and their values) or a line feed.       *)
ObjectTok(keys, timestamp, event_type, event_data) ==
  [kind |-> "object", keys |-> keys, timestamp |-> timestamp, type |-> event_type,
   data |-> event_data]
LineFeed == [kind |-> "newline", keys |-> {}, timestamp |-> 0, type |-> "", data |-> 0]

(* json.dumps(log_entry): one object, on one line (a line feed inside a    *)
(* string is written as \n)                                                *)
json_dumps(log_entry) ==
  <<ObjectTok({"timestamp", "type", "data"}, log_entry.timestamp, log_entry.type,
              log_entry.data)>>

(* open(..., 'a'): the text is kept and writes go to its end *)
OpenAppendTruncates(text) == <<>>
OpenAppend(text) == text

RECURSIVE SplitLines(_)
(* The lines of a text: the tokens before each line feed *)
SplitLines(text) ==
  IF text = <<>> THEN <<>>
  ELSE LET nl == CHOOSE i \in 1..(Len(text) + 1) :
                   /\ i = Len(text) + 1 \/ text[i].kind = "newline"
                   /\ \A k \in 1..(i - 1) : text[k].kind # "newline"
       IN <<SubSeq(text, 1, nl - 1)>> \o SplitLines(SubSeq(text, nl + 1, Len(text)))

EventTypes == {"fire_detected", "fire_suppressed", "multimodal_decision"}
Clock == {1, 2}

(* lines 56-64 (advanced_firebot.py), 304-312 (advanced_ai_firebot.py) *)
CallLogEvent(now, event_type, event_data) ==
  /\ prog = "log"
  /\ Len(SplitLines(events_file)) < MaxLines
  /\ LET log_entry == [timestamp |-> now, type |-> event_type, data |-> event_data] IN
     events_file' = OpenAppend(events_file) \o json_dumps(log_entry) \o <<LineFeed>>
  /\ call' = [fn |-> "log_event", type |-> event_type, data |-> event_data]
  /\ UNCHANGED <<result, loopVars, chanVars, mlVars, vlm, requests>>

LogNext ==
  \E now \in Clock, event_type \in EventTypes, event_data \in 0..MaxCount :
    CallLogEvent(now, event_type, event_data)

SpecLog == InitProg("log") /\ [][LogNext]_vars

-----------------------------------------------------------------------------
(* mobile_vlm_bridge.py: the route POST /plan *)

(* A JSON value that is an object with the keys in `keys`, or a string *)
StrategyObject(keys, priority_level) ==
  [kind |-> "object", keys |-> keys, priority_level |-> priority_level, text |-> ""]
StrategyString(text) ==
  [kind |-> "string", keys |-> {}, priority_level |-> "", text |-> text]

(* Request bodies: a JSON object (whose 'context' is a dictionary, absent, *)
(* or another JSON value), or anything else (a list, null, not JSON).      *)
FireCounts == {0, 1, 3, 4}
PlanBody(json, context, fire_count) ==
  [json |-> json, context |-> context, fire_count |-> fire_count]
PlanBodies ==
  {PlanBody("object", "dict", c) : c \in FireCounts}
  \cup {PlanBody("object", "absent", 0), PlanBody("object", "other", 0),
        PlanBody("other", "absent", 0)}

(* What the model gives the real planner: JSON text of a plan with the     *)
(* keys of the prompt, of an object with other keys, of a value that is    *)
(* not an object, text that is not JSON, or an exception                   *)
ModelOutcomes == {"json_plan", "json_other_keys", "json_not_object", "text", "raises"}

PlanKeys ==
  {"priority_level", "immediate_actions", "strategic_goals", "route_optimization",
   "risk_assessment", "resource_allocation"}
BuildKeys == {"building_strategy", "materials_needed", "building_coordinates"}

(* mobile_vlm_planner.py lines 418-428 *)
emergency_strategy ==
  StrategyObject(PlanKeys \cup {"planning_time_ms", "emergency"}, "CRITICAL")

(* mobile_vlm_planner.py lines 240-258: MEDIUM unless the text holds a     *)
(* word of the CRITICAL or HIGH lists                                      *)
parse_text_response(level) ==
  StrategyObject({"priority_level", "immediate_actions", "strategic_goals",
                  "route_optimization", "risk_assessment", "planning_time_ms"}, level)

(* mobile_vlm_planner.py lines 264-352 *)
mock_strategy(fire_count) ==
  LET common == PlanKeys \cup BuildKeys \cup {"planning_time_ms", "mock"} IN
  IF fire_count = 0 THEN StrategyObject(common, "LOW")
  ELSE IF fire_count > 3
  THEN StrategyObject(common \cup {"building_instructions", "target_coordinates"},
                      "CRITICAL")
  ELSE StrategyObject(common \cup {"building_instructions", "target_distance",
                                    "target_height"}, "HIGH")

(* mobile_vlm_planner.py lines 116-173 *)
real_plan_strategy(fire_count, outcome, level) ==
  IF outcome = "json_plan" THEN StrategyObject(PlanKeys \cup {"planning_time_ms"}, level)
  ELSE IF outcome = "json_other_keys"
  THEN StrategyObject({"answer", "planning_time_ms"}, "")
  ELSE IF outcome = "text" THEN parse_text_response(level)
  ELSE emergency_strategy

(* mobile_vlm_bridge.py lines 19-124 *)
MockVLM_plan_strategy(fire_count) ==
  LET common == {"strategy", "priority_level", "immediate_actions", "reason",
                 "building_strategy", "movement_pattern", "visual_analysis",
                 "planning_time_ms"}
      build == {"building_instructions", "materials_needed", "building_coordinates",
                "estimated_completion_time"}
  IN IF fire_count = 0
     THEN StrategyObject(common \cup {"patrol_radius", "scan_frequency"}, "LOW")
     ELSE IF fire_count > 3
     THEN StrategyObject(common \cup build \cup {"target_coordinates"}, "CRITICAL")
     ELSE StrategyObject(common \cup build \cup {"target_distance", "target_height"},
                         "HIGH")

(* data.get and context.get raise on a value that is not a dictionary *)
PlanRaises(body) == body.json # "object" \/ body.context = "other"

(* mobile_vlm_bridge.py lines 298-306: the answer of the except branch *)
PlanErrorAnswer ==
  [keys |-> {"strategy", "priority_level", "immediate_actions", "reason", "error"},
   strategy |-> StrategyString("patrol")]
PlanAnswer(strategy) ==
  [keys |-> {"strategy", "vlm_available", "planning_time_ms"}, strategy |-> strategy]

PlanFrame == UNCHANGED <<loopVars, chanVars, mlVars, events_file>>

(* mobile_vlm_bridge.py lines 246-263: MobileVLMPlanner() loads the model, *)
(* falls back to its mock mode when loading fails, or raises, and then     *)
(* MockVLM is used                                                         *)
PlanStartup(planner) ==
  /\ prog = "plan"
  /\ vlm = "unset"
  /\ vlm' = planner
  /\ UNCHANGED <<call, result, requests>>
  /\ PlanFrame

(* mobile_vlm_bridge.py lines 265-306 *)
PlanRequest(body, outcome, level) ==
  /\ prog = "plan"
  /\ vlm # "unset"
  /\ requests < MaxRequests
  /\ requests' = requests + 1
  /\ call' = [fn |-> "plan_strategy", body |-> body]
  /\ result' =
       IF PlanRaises(body) THEN PlanErrorAnswer
       ELSE IF vlm = "MockVLM" THEN PlanAnswer(MockVLM_plan_strategy(body.fire_count))
       ELSE IF vlm = "mock_mode" THEN PlanAnswer(mock_strategy(body.fire_count))
       ELSE PlanAnswer(real_plan_strategy(body.fire_count, outcome, level))
  /\ UNCHANGED vlm
  /\ PlanFrame

PlanNext ==
  \/ \E planner \in {"real", "mock_mode", "MockVLM"} : PlanStartup(planner)
  \/ \E body \in PlanBodies, outcome \in ModelOutcomes,
        level \in {"CRITICAL", "HIGH", "MEDIUM"} : PlanRequest(body, outcome, level)

SpecPlan == InitProg("plan") /\ [][PlanNext]_vars

-----------------------------------------------------------------------------
(* models/online_learner.py: class OnlineLearner.                           *)
(*                                                                         *)
(* The source's experience counts (100 stored, the last 50, 20 training    *)
(* examples, a replay buffer of 1000) are modelled on a reduced scale, so   *)
(* that the deques stay short; their order (20 < 50 < 100 = 2 * 50 <=       *)
(* capacity) is kept.  Percentages and minutes have the source's values.    *)
(* An experience's image is left out: nothing the model looks at reads it.  *)

replay_buffer_size == 4        \* line 35: the constructor's parameter (default 1000)
learning_threshold == 30       \* line 35: 0.3, in hundredths
MinStored == 4                 \* line 106: 100 experiences
RecentWindow == 2              \* line 112: the last 50 of a buffer
MinTrainExamples == 2          \* line 159: 20 training examples
AccuracyPercent == 85          \* line 120: 0.85
CooldownMinutes == 10          \* line 127: timedelta(minutes=10)
MaxExperiences == 5            \* add_experience calls over all runs
MaxClock == 14                 \* the last minute of the clock

Confidences == {60, 90}        \* model confidences, in hundredths
Advances == {1, CooldownMinutes}  \* minutes between two add_experience calls

(* datetime.now().isoformat() and datetime.fromisoformat *)
isoformat(minute) == [none |-> FALSE, iso |-> minute]
fromisoformat(string) == string.iso

(* lines 75-82 *)
Experience(prediction, ground_truth, confidence, minute) ==
  [prediction |-> prediction, ground_truth |-> ground_truth, confidence |-> confidence,
   timestamp |-> isoformat(minute), was_correct |-> (prediction = ground_truth)]

(* lines 42-43, 85: deque(maxlen=replay_buffer_size // 2).append *)
deque_maxlen == replay_buffer_size \div 2
deque_append_unbounded(buffer, experience) == Append(buffer, experience)
deque_append(buffer, experience) ==
  IF deque_maxlen = 0 THEN <<>>
  ELSE IF Len(buffer) >= deque_maxlen THEN Append(Tail(buffer), experience)
  ELSE Append(buffer, experience)

(* the dict's values in insertion order: fire_detected, then no_fire *)
BufferOrder == <<"fire_detected", "no_fire">>
Stored(buffers) == Len(buffers["fire_detected"]) + Len(buffers["no_fire"])
LastOf(n, buffer) ==
  SubSeq(buffer, (IF Len(buffer) > n THEN Len(buffer) - n ELSE 0) + 1, Len(buffer))
CorrectIn(experiences) == Cardinality({i \in DOMAIN experiences : experiences[i].was_correct})

(* lines 110-112: list(buffer)[-50:] of each buffer, one after the other *)
recent_experiences(buffers) ==
  LastOf(RecentWindow, buffers[BufferOrder[1]]) \o LastOf(RecentWindow, buffers[BufferOrder[2]])

(* lines 95-135: the return statement should_retrain ends at *)
should_retrain_branch(buffers, stats, minute) ==
  LET total_experiences == Stored(buffers)
      recent == recent_experiences(buffers)
  IN IF total_experiences < MinStored THEN "few_stored"
     ELSE IF Len(recent) < RecentWindow THEN "few_recent"
     ELSE IF 100 * CorrectIn(recent) < AccuracyPercent * Len(recent) THEN "accuracy"
     ELSE IF /\ ~stats.last_retraining.none
             /\ minute - fromisoformat(stats.last_retraining) < CooldownMinutes
          THEN "cooldown"
     ELSE IF 2 * total_experiences > 3 * stats.total_experiences THEN "growth"
     ELSE "no_trigger"
should_retrain(buffers, stats, minute) ==
  should_retrain_branch(buffers, stats, minute) \in {"accuracy", "growth"}

(* lines 150-157: the experiences retraining uses *)
train_images(buffers) ==
  LET all == buffers[BufferOrder[1]] \o buffers[BufferOrder[2]]
  IN SelectSeq(all, LAMBDA e : ~e.was_correct \/ e.confidence < 100 - learning_threshold)

(* lines 137-204: the learning_stats after trigger_retraining; the fit and  *)
(* the save of the model are taken to succeed                               *)
trigger_retraining(buffers, stats, minute) ==
  IF ~tf_available THEN stats
  ELSE IF Len(train_images(buffers)) < MinTrainExamples THEN stats
  ELSE [stats EXCEPT !.retraining_sessions = @ + 1, !.last_retraining = isoformat(minute)]

LearnFrame == UNCHANGED <<loopVars, chanVars, trainVars, events_file, vlm, requests, tf_available>>

(* lines 63-93: add_experience, called `advance` minutes after the clock's  *)
(* last reading                                                            *)
add_experience(prediction, ground_truth, confidence, advance) ==
  LET minute == clock + advance
      experience == Experience(prediction, ground_truth, confidence, minute)
      buffers == [experience_buffer EXCEPT
                    ![ground_truth] = deque_append(@, experience)]
      stats == [learning_stats EXCEPT !.total_experiences = @ + 1,
                                      !.confidence_history = Append(@, confidence)]
      branch == should_retrain_branch(buffers, stats, minute)
  IN /\ prog = "learner"
     /\ learning_stats.total_experiences < MaxExperiences
     /\ minute <= MaxClock
     /\ clock' = minute
     /\ experience_buffer' = buffers
     /\ learning_stats' = IF should_retrain(buffers, stats, minute)
                           THEN trigger_retraining(buffers, stats, minute) ELSE stats
     /\ call' = [fn |-> "add_experience", ground_truth |-> ground_truth]
     /\ result' = [returned |-> experience, branch |-> branch]
     /\ UNCHANGED learning_file
     /\ LearnFrame

(* json.dump and json.load of the learner's data: None is null, a Boolean   *)
(* is true or false, numbers and strings are kept                           *)
JsonBool(b) == IF b THEN "true" ELSE "false"
PyBool(token) == token = "true"
JsonTime(t) == [null |-> t.none, string |-> t.iso]
PyTime(j) == IF j.null THEN NoneTime ELSE isoformat(j.string)
JsonStats(stats) == [stats EXCEPT !.last_retraining = JsonTime(@)]
PyStats(j) == [j EXCEPT !.last_retraining = PyTime(@)]
(* lines 296-304: the keys save_experiences keeps of an experience *)
JsonExperience(e) ==
  [prediction |-> e.prediction, ground_truth |-> e.ground_truth, confidence |-> e.confidence,
   timestamp |-> JsonTime(e.timestamp), was_correct |-> JsonBool(e.was_correct)]
PyExperience(j) ==
  [prediction |-> j.prediction, ground_truth |-> j.ground_truth, confidence |-> j.confidence,
   timestamp |-> PyTime(j.timestamp), was_correct |-> PyBool(j.was_correct)]
JsonBuffers(buffers) ==
  [label \in Labels |-> [i \in DOMAIN buffers[label] |-> JsonExperience(buffers[label][i])]]
PyBuffers(j) ==
  [label \in Labels |-> [i \in DOMAIN j[label] |-> PyExperience(j[label][i])]]

(* lines 290-311 *)
save_experiences ==
  /\ prog = "learner"
  /\ learning_file' =
       [exists |-> TRUE,
        document |-> [learning_stats |-> JsonStats(learning_stats),
                      experience_buffer |-> JsonBuffers(experience_buffer)]]
  /\ call' = [fn |-> "save_experiences"]
  /\ result' = [none |-> TRUE]
  /\ UNCHANGED <<experience_buffer, learning_stats, clock>>
  /\ LearnFrame

(* lines 313-323: the learning_stats after load_experiences *)
load_experiences(stats) ==
  IF learning_file.exists THEN PyStats(learning_file.document.learning_stats) ELSE stats

(* lines 35-57: a new OnlineLearner is constructed (the script starts again) *)
OnlineLearner_init ==
  /\ prog = "learner"
  /\ experience_buffer' = EmptyBuffers
  /\ learning_stats' = load_experiences(DefaultStats)
  /\ call' = [fn |-> "__init__"]
  /\ result' = [none |-> TRUE]
  /\ UNCHANGED <<learning_file, clock>>
  /\ LearnFrame

(* adapt_threshold reads of recent_predictions its length and, entry by     *)
(* entry, whether it is a false positive or a false negative: a list is     *)
(* given by how many entries of each kind it has.  Thresholds and rates are *)
(* exact hundredths.                                                        *)
MinPredictions == 20           \* line 261
RatePercent == 10              \* lines 281, 283: 0.1
ThresholdStep == 5             \* lines 282, 284: 0.05
ThresholdMax == 80             \* line 282: 0.8
ThresholdMin == 20             \* line 284: 0.2
DefaultThreshold == 50         \* line 262: 0.5
PredictionLists ==
  [false_positives : {0, 2, 3}, false_negatives : {0, 2, 3}, others : {13, 14, 16, 20}]
len(recent_predictions) ==
  recent_predictions.false_positives + recent_predictions.false_negatives
    + recent_predictions.others
Max(a, b) == IF a > b THEN a ELSE b

(* lines 264-284: current_threshold at line 286 *)
current_threshold(recent_predictions, threshold) ==
  LET total == len(recent_predictions)
  IN IF 100 * recent_predictions.false_positives > RatePercent * total
       THEN Min(ThresholdMax, threshold + ThresholdStep)
     ELSE IF 100 * recent_predictions.false_negatives > RatePercent * total
       THEN Max(ThresholdMin, threshold - ThresholdStep)
     ELSE threshold

(* lines 253-288 *)
adapt_threshold(recent_predictions) ==
  /\ prog = "learner"
  /\ call' = [fn |-> "adapt_threshold", recent_predictions |-> recent_predictions]
  /\ IF len(recent_predictions) < MinPredictions
     THEN /\ result' = [returned |-> DefaultThreshold]
          /\ UNCHANGED learning_stats
     ELSE LET threshold ==
                current_threshold(recent_predictions, learning_stats.adaptive_threshold)
          IN /\ learning_stats' = [learning_stats EXCEPT !.adaptive_threshold = threshold]
             /\ result' = [returned |-> threshold]
  /\ UNCHANGED <<experience_buffer, learning_file, clock>>
  /\ LearnFrame

ThresholdNext ==
  \E recent_predictions \in PredictionLists : adapt_threshold(recent_predictions)
SpecThreshold == InitProg("learner") /\ [][ThresholdNext]_vars

(* one learner, from its construction on *)
LearnerNext ==
  \E prediction \in Labels, ground_truth \in Labels, confidence \in Confidences,
     advance \in Advances :
    add_experience(prediction, ground_truth, confidence, advance)

SpecLearner == InitProg("learner") /\ [][LearnerNext]_vars
(* the game keeps producing experiences *)
FairLearner == SpecLearner /\ WF_vars(LearnerNext)

(* learners constructed one after the other over the same data file, each   *)
(* taking experiences a minute apart                                        *)
MaxSaved == 3
PersistNext ==
  \/ /\ learning_stats.total_experiences < MaxSaved
     /\ \E prediction \in Labels, ground_truth \in Labels, confidence \in Confidences :
          add_experience(prediction, ground_truth, confidence, 1)
  \/ save_experiences
  \/ OnlineLearner_init

SpecPersist == InitProg("learner") /\ [][PersistNext]_vars

-----------------------------------------------------------------------------
(* archive_files/models/train_minecraft_cnn.py: prepare_training_data, run  *)
(* again and again while the bot keeps saving samples into training_data/.  *)

MaxNames == 3                  \* the sample files a label's directory can hold
Names == 1..MaxNames
SampleLabels == Labels \cup {"uncertain"}
TestPercent == 20              \* lines 93-94: test_size=0.2

(* sklearn's train_test_split(files, test_size=0.2): the validation part    *)
(* has ceil(0.2 * n) files and the training part the others; it raises      *)
(* ValueError when the training part would be empty                         *)
n_test(n_samples) == (TestPercent * n_samples + 99) \div 100
n_train(n_samples) == n_samples - n_test(n_samples)
SplitRaises(files) == n_train(Len(files)) = 0
(* sklearn's ShuffleSplit draws numpy's RandomState(42).permutation(n): the *)
(* first n_test indices (from 0) are the validation part, the others the    *)
(* training part.  The tuple lists the permutations of 1 to 6 files.        *)
Permutation42 ==
  <<<<0>>, <<1, 0>>, <<0, 1, 2>>, <<1, 3, 0, 2>>, <<1, 4, 2, 0, 3>>, <<0, 1, 5, 2, 4, 3>>>>
train_test_split(files) ==
  LET n_samples == Len(files)
      permutation == Permutation42[n_samples]
  IN [train |-> {files[permutation[k] + 1] : k \in (n_test(n_samples) + 1)..n_samples},
      val |-> {files[permutation[k] + 1] : k \in 1..n_test(n_samples)}]

(* lines 97-99: copy_files, into the directory of `label` under target *)
copy_files(file_list, target, label) == target \cup {<<label, name>> : name \in file_list}

TrainFrame == UNCHANGED <<loopVars, chanVars, learnVars, events_file, vlm, requests>>

FilesOf(label) == {training_data[label][i] : i \in DOMAIN training_data[label]}
InsertAt(listing, place, name) ==
  SubSeq(listing, 1, place) \o <<name>> \o SubSeq(listing, place + 1, Len(listing))

(* advanced_ai_firebot.py lines 262-277: the bot saves one more sample      *)
(* file.  Where the directory listing shows it is up to the file system     *)
(* (last with creation order, anywhere with hashed directories); the files  *)
(* that were there keep their order.                                        *)
NewSample(label, name, place) ==
  /\ prog = "train"
  /\ name \notin FilesOf(label)
  /\ place <= Len(training_data[label])
  /\ training_data' = [training_data EXCEPT ![label] = InsertAt(@, place, name)]
  /\ call' = [fn |-> "save_training_sample"]
  /\ result' = [none |-> TRUE]
  /\ UNCHANGED split_dirs
  /\ TrainFrame

(* lines 76-111 *)
prepare_training_data ==
  LET fire_files == training_data["fire_detected"]
      no_fire_files == training_data["no_fire"]
  IN /\ prog = "train"
     /\ call' = [fn |-> "prepare_training_data"]
     /\ IF SplitRaises(fire_files) \/ SplitRaises(no_fire_files)
        THEN /\ result' = [returned |-> FALSE]
             /\ UNCHANGED split_dirs
        ELSE LET fire == train_test_split(fire_files)
                 no_fire == train_test_split(no_fire_files)
             IN /\ split_dirs' =
                     [train |-> copy_files(no_fire.train,
                                  copy_files(fire.train, split_dirs.train, "fire_detected"),
                                  "no_fire"),
                      val |-> copy_files(no_fire.val,
                                copy_files(fire.val, split_dirs.val, "fire_detected"),
                                "no_fire")]
                /\ result' = [returned |-> TRUE]
     /\ UNCHANGED training_data
     /\ TrainFrame

TrainNext ==
  \/ \E label \in SampleLabels, name \in Names, place \in 0..MaxNames :
       NewSample(label, name, place)
  \/ prepare_training_data

SpecTrain == InitProg("train") /\ [][TrainNext]_vars

-----------------------------------------------------------------------------
(* What the last step read and wrote *)
fire_count_read == DataGet(data, "fire_count", 0)
fires_read == DataGet(data, "fires", <<>>)
position_read == DataGet(data, "position", EmptyDict)
GotoWritten == {cmds[i].kwargs : i \in {k \in DOMAIN cmds : cmds[k].action = "goto"}}
Logged(type) == \E i \in DOMAIN logged : logged[i].type = type
TargetDistSq == calculate_distance_sq(position_read, fires_read[1])

(* C1: in a tick whose sensor read reports hazard count 0, no 'suppress'    *)
(* command is written, whatever the loop state.                             *)
C1_NoSuppressAtZeroCount ==
  (prog = "advanced" /\ handler # "none" /\ fire_count_read = 0) => ~Wrote("suppress")

(* C2: if from some tick on every snapshot read has hazard count 0 and an   *)
(* empty hazard list, the loop reaches PATROL and stays there.              *)
QuietRead ==
  /\ fire_count_read = 0
  /\ Len(fires_read) = 0
  /\ reread \in {NoReread, 0}
C2_QuietReachesPatrol == <>[]QuietRead => <>[](state = "PATROL")

(* C3: every 'goto' command carries the coordinates of element 0 of the     *)
(* hazard list of the snapshot read in the same step (advanced_firebot,     *)
(* advanced_ai_firebot and auto_firebot).                                   *)
C3_GotoTargetsFirstHazard ==
  \A kwargs \in GotoWritten :
     /\ Len(fires_read) > 0
     /\ kwargs = Pt(fires_read[1].x, fires_read[1].y, fires_read[1].z)
C3_Witness ==
  /\ prog = "advanced" /\ Wrote("goto")
  /\ Len(fires_read) > 1 /\ fires_read[1] # fires_read[Len(fires_read)]

RespondRan == prog = "advanced" /\ handler = "RESPOND" /\ Len(fires_read) > 0

C5_UnchangedCountReturnsToAssess ==
  [][(prog = "advanced" /\ handler' = "SUPPRESS" /\ reread' = fire_count_read') =>
       /\ state' = "ASSESS"
       /\ fires_suppressed_total' = fires_suppressed_total
       /\ ~Logged("fire_suppressed")']_vars

(* C6: when fire_data.json is missing or unparseable, get_fire_data returns *)
(* the default snapshot, the loop goes on, and that tick writes neither     *)
(* 'goto' nor 'suppress', whatever the state.                               *)
C6_FailedReadIsHazardFree ==
  (prog = "advanced" /\ read_failed) =>
    /\ data = DefaultSnapshot
    /\ crash = "none"
    /\ ~Wrote("goto")
    /\ ~Wrote("suppress")

(* C7: in no loop variant (advanced_firebot, advanced_ai_firebot,           *)
(* auto_firebot, collect_training_data, minecraft_firebot_simple) does an   *)
(* error while reading the sensor file, or a key it lacks, end the loop.    *)
C7_SensorReadNeverEndsLoop == crash # "sensor"

InScenarioA == prog = "advanced" /\ scenario_ticks \in 1..ScenarioLen

(* C8 as claimed: while the first ten ticks all read hazard count 0, the    *)
(* state is PATROL after each tick, no 'suppress' is written, and every     *)
(* 'patrol' command comes more than 8 s after the previous one.             *)
C8_ScenarioA_EveryExploreSpaced ==
  [][InScenarioA' =>
       /\ state' = "PATROL"
       /\ ~Wrote("suppress")'
       /\ Wrote("patrol")' => explore_age > PatrolInterval]_vars

(* C8 amended: as above, except that the stuck recovery may write a         *)
(* 'patrol' command sooner; in these ten ticks that happens in the tenth    *)
(* tick only (the position stayed within 1 block in all of them).           *)
C8_ScenarioA_PatrolExploreSpaced ==
  [][InScenarioA' =>
       /\ state' = "PATROL"
       /\ ~Wrote("suppress")'
       /\ Wrote("patrol")' => (explore_age > PatrolInterval \/ handler' = "stuck")
       /\ handler' = "stuck" => scenario_ticks' = StuckLimit + 2]_vars
C8_Witness ==
  InScenarioA /\ scenario_ticks = ScenarioLen /\ handler = "stuck"
  /\ Wrote("patrol") /\ patrol_cycles = 2 /\ explore_age < PatrolInterval

ScenarioB(d) ==
  /\ DataGet(d, "fire_count", 0) > 0
  /\ Len(DataGet(d, "fires", <<>>)) > 0
  /\ calculate_distance_sq(DataGet(d, "position", EmptyDict), DataGet(d, "fires", <<>>)[1])
       > Sq(CloseRange)
GotoFirst == GotoWritten = {Pt(fires_read[1].x, fires_read[1].y, fires_read[1].z)}

(* C9 as claimed: when the count read changes from 0 to positive, with a    *)
(* non-empty hazard list whose first element is beyond the threshold, the   *)
(* loop leaves PATROL in that tick, goes from ASSESS to RESPOND in the      *)
(* next, and then writes 'goto' to the first element; no command is         *)
(* written before that 'goto'.                                              *)
C9_ScenarioB_Steps ==
  [][(prog = "advanced" /\ ScenarioB(data')) =>
       /\ (state = "PATROL" /\ fire_count_read = 0) => (state' = "ASSESS" /\ cmds' = <<>>)
       /\ state = "ASSESS" => (state' = "RESPOND" /\ cmds' = <<>>)
       /\ state = "RESPOND" =>
            (state' = "RESPOND" /\ Len(cmds') = 1 /\ GotoFirst')]_vars

(* C9 amended: the same, for ticks that are not stuck-recovery ticks        *)
(* (a stuck-recovery tick skips the state handling and leaves the state).   *)
C9_ScenarioB_StepsUnlessStuck ==
  [][(prog = "advanced" /\ ScenarioB(data') /\ handler' # "stuck") =>
       /\ (state = "PATROL" /\ fire_count_read = 0) => (state' = "ASSESS" /\ cmds' = <<>>)
       /\ state = "ASSESS" => (state' = "RESPOND" /\ cmds' = <<>>)
       /\ state = "RESPOND" =>
            (state' = "RESPOND" /\ Len(cmds') = 1 /\ GotoFirst')]_vars
C9_Witness ==
  /\ prog = "advanced" /\ ScenarioB(data)
  /\ handler = "RESPOND" /\ state = "RESPOND" /\ GotoFirst
  /\ Len(fires_read) > 1 /\ fires_suppressed_total = 0

OnlyPatrolWritten == \A i \in DOMAIN cmds : cmds[i].action = "patrol"
C11_UnchangedSnapshotKeepsState ==
  [][(prog = "advanced" /\ snapshot_repeat' = "same") =>
       /\ state' = state
       /\ fires_suppressed_total' = fires_suppressed_total
       /\ OnlyPatrolWritten']_vars

(* C11 amended: the same for a tick that starts in PATROL and re-reads a    *)
(* snapshot with hazard count 0; patrol_cycles changes only together with   *)
(* a 'patrol' command (stuck_counter does change).                          *)
C11_UnchangedQuietSnapshotKeepsPatrol ==
  [][(prog = "advanced" /\ snapshot_repeat' = "same" /\ state = "PATROL"
        /\ fire_count_read' = 0) =>
       /\ state' = "PATROL"
       /\ fires_suppressed_total' = fires_suppressed_total
       /\ OnlyPatrolWritten'
       /\ patrol_cycles' # patrol_cycles => Wrote("patrol")']_vars
C11_Witness ==
  /\ prog = "advanced" /\ snapshot_repeat = "same" /\ handler = "PATROL"
  /\ state = "PATROL" /\ fire_count_read = 0 /\ Len(fires_read) > 0
  /\ Wrote("patrol") /\ patrol_cycles = 2

(* C12: once a send_command call has completed, command.json parses to    *)
(* exactly the dictionary {'action': action, **kwargs} of that call,        *)
(* whatever the file held before.                                           *)
C12_CommandFileRoundTrip ==
  (prog = "channel" /\ py_pc = "idle" /\ sent > 0) =>
    /\ command_file.exists
    /\ json_load(command_file.text) = [raises |-> FALSE, items |-> DictItems(py_cmd)]
C12_Witness ==
  /\ prog = "channel" /\ py_pc = "idle" /\ sent > 1
  /\ py_old > Len(json_dump(py_cmd))
  /\ py_cmd.action = "patrol"
  /\ json_load(command_file.text).items = DictItems(py_cmd)

(* C13: calculate_distance gives the same for (a, b) and (b, a), is never   *)
(* negative, and gives 0 for (p, p), for all dictionaries of coordinates,  *)
(* a missing key counting as 0.                                            *)
C13_DistanceSymmetricZeroOnSelf ==
  call.fn = "calculate_distance" =>
    /\ result.value = calculate_distance(call.pos2, call.pos1)
    /\ result.value >= 0
    /\ call.pos1 = call.pos2 => result.value = 0
C13_Witness ==
  /\ call.fn = "calculate_distance"
  /\ call.pos1.pos.keys = {"y", "z"} /\ call.pos2.pos.keys = {"x", "y", "z"}
  /\ call.pos1.null = {} /\ call.pos2.null = {}
  /\ call.pos2.pos.x = 1 /\ call.pos1.pos.y # call.pos2.pos.y
  /\ result.value = 2

Precedence ==
  <<{"SUPPRESS_FIRE"}, {"TURN_LEFT"}, {"TURN_RIGHT"}, CompassTurns, {"MOVE_FORWARD"},
    {"SCAN_360"}, {"PATROL"}>>
ActionOfRank ==
  <<"suppress", "turn_left", "turn_right", "turn_right", "move_forward", "scan_360",
    "patrol">>
Occurs(r, i) == r.tokens \cap Precedence[i] # {}
AllFlagsFalse ==
  [smoke_visible |-> FALSE, glow_visible |-> FALSE, lava_visible |-> FALSE,
   visual_matches |-> FALSE]
C16_ParseActionPrecedence ==
  call.fn = "parse_multimodal_response" =>
    /\ result.action \in Actions
    /\ call.response.tokens = {} => result.action = "patrol"
    /\ \A i \in DOMAIN Precedence :
         (Occurs(call.response, i) /\ \A k \in 1..(i - 1) : ~Occurs(call.response, k))
           => result.action = ActionOfRank[i]
    /\ call.response = ask_qwen_multimodal(Raises)
         => result = [action |-> "patrol", analysis |-> AllFlagsFalse]
C16_Witness ==
  /\ call.fn = "parse_multimodal_response"
  /\ call.response.tokens = {"TURN_WEST", "MOVE_FORWARD", "PATROL"}
  /\ result.action = "turn_right"

(* C17: parse_multimodal_response gives the same action and flags for a    *)
(* response, its all-upper-case version and its all-lower-case version.    *)
UpperCase(r) == [r EXCEPT !.yes = IF @ = "absent" THEN "absent" ELSE "exact"]
LowerCase(r) == [r EXCEPT !.yes = IF @ = "absent" THEN "absent" ELSE "other_case"]
C17_ParseIgnoresLetterCase ==
  call.fn = "parse_multimodal_response" =>
    /\ result = parse_multimodal_response(UpperCase(call.response))
    /\ result = parse_multimodal_response(LowerCase(call.response))

(* C18: save_training_sample labels the sample fire_detected iff           *)
(* fire_count > 0 and glow, lava or the visual match is reported; no_fire  *)
(* iff fire_count = 0 and neither glow nor lava is reported; uncertain     *)
(* otherwise; whatever the action and the decision number.                 *)
C18_LabelRule ==
  call.fn = "save_training_sample" =>
    LET a == call.ai_analysis
        fire == call.fire_count > 0 /\ (a.glow_visible \/ a.lava_visible \/ a.visual_matches)
        none == call.fire_count = 0 /\ ~a.glow_visible /\ ~a.lava_visible
    IN /\ result.label = "fire_detected" <=> fire
       /\ result.label = "no_fire" <=> none
       /\ result.label = "uncertain" <=> (~fire /\ ~none)
       /\ \A name \in Actions, decision_num \in 1..MaxDecisions :
            save_training_sample(call.fire_count, a, name, decision_num).label
              = result.label
C18_Witness ==
  /\ call.fn = "save_training_sample"
  /\ call.fire_count > 0 /\ call.ai_analysis.smoke_visible
  /\ ~call.ai_analysis.glow_visible /\ call.ai_analysis.lava_visible
  /\ ~call.ai_analysis.visual_matches
  /\ call.action = "patrol" /\ call.decision_num = MaxDecisions
  /\ result.label = "fire_detected"

(* C21: a log_event call adds one line to the end of logs/events.jsonl and *)
(* leaves the earlier lines as they were, and every line is one object     *)
(* with exactly the keys timestamp, type and data.                         *)
IsLogLine(line) ==
  /\ Len(line) = 1 /\ line[1].kind = "object"
  /\ line[1].keys = {"timestamp", "type", "data"}
C21_LogAppendOnly ==
  [][(prog = "log" /\ (call' # call \/ events_file' # events_file)) =>
       LET old == SplitLines(events_file)
           new == SplitLines(events_file')
       IN /\ Len(new) = Len(old) + 1
          /\ SubSeq(new, 1, Len(old)) = old
          /\ \A i \in DOMAIN new : IsLogLine(new[i])
          /\ new[Len(new)][1].type = call'.type /\ new[Len(new)][1].data = call'.data]_vars
C21_Witness ==
  /\ prog = "log"
  /\ Len(SplitLines(events_file)) = MaxLines
  /\ SplitLines(events_file)[1][1].type = "fire_detected"
  /\ SplitLines(events_file)[MaxLines][1].type = "fire_suppressed"

(* C22: POST /plan answers every request with a body whose 'strategy' is   *)
(* an object carrying a priority level and an action list, whichever       *)
(* planner is in use and also when planning raises.                        *)
C22_PlanAnswersStrategyObject ==
  (prog = "plan" /\ requests > 0) =>
    /\ "strategy" \in result.keys
    /\ result.strategy.kind = "object"
    /\ {"priority_level", "immediate_actions"} \subseteq result.strategy.keys

(* C23: the state of advanced_firebot is one of PATROL, ASSESS, RESPOND,    *)
(* SUPPRESS, starts as PATROL and changes only along PATROL->ASSESS,       *)
(* ASSESS->RESPOND, RESPOND->SUPPRESS, RESPOND->PATROL, SUPPRESS->ASSESS,  *)
(* SUPPRESS->PATROL; a suppress command is written only by a tick that     *)
(* starts in SUPPRESS.                                                     *)
States == {"PATROL", "ASSESS", "RESPOND", "SUPPRESS"}
Edges ==
  {<<"PATROL", "ASSESS">>, <<"ASSESS", "RESPOND">>, <<"RESPOND", "SUPPRESS">>,
   <<"RESPOND", "PATROL">>, <<"SUPPRESS", "ASSESS">>, <<"SUPPRESS", "PATROL">>}
C23_StateMachineEdges ==
  /\ (prog = "advanced" => state = "PATROL")
  /\ [](prog = "advanced" => state \in States)
  /\ [][prog = "advanced" =>
         /\ state' # state => <<state, state'>> \in Edges
         /\ Wrote("suppress")' => state = "SUPPRESS"]_vars
C23_Witness ==
  /\ prog = "advanced" /\ handler = "SUPPRESS" /\ Wrote("suppress")
  /\ state = "ASSESS" /\ fires_suppressed_total > 0

(* C24: a SUPPRESS tick that read the count c0 and re-read c1 adds c0 - c1  *)
(* to fires_suppressed_total and logs one fire_suppressed event when       *)
(* c1 < c0, never lowers the total, goes to ASSESS when c1 > 0, and when   *)
(* c1 = 0 goes to PATROL with an event recorded in the event log.          *)
C24_SuppressResultHandling ==
  [][(prog = "advanced" /\ handler' = "SUPPRESS") =>
       LET c0 == fire_count_read'
           c1 == reread'
       IN /\ c1 < c0 => /\ fires_suppressed_total' = fires_suppressed_total + (c0 - c1)
                        /\ Len(logged') = 1 /\ logged'[1].type = "fire_suppressed"
          /\ fires_suppressed_total' >= fires_suppressed_total
          /\ c1 > 0 => state' = "ASSESS"
          /\ c1 = 0 => (state' = "PATROL" /\ Len(logged') > 0)]_vars

(* C25: a tick in ASSESS writes no command; with an empty hazard list the  *)
(* state stays ASSESS for the wait of that tick, with a non-empty list it  *)
(* becomes RESPOND.                                                        *)
C25_AssessTick ==
  [][(prog = "advanced" /\ state = "ASSESS") =>
       /\ cmds' = <<>>
       /\ Len(fires_read') = 0 => (state' = "ASSESS" /\ elapsed' = AssessWait)
       /\ Len(fires_read') > 0 => state' = "RESPOND"]_vars
(* C25, amended: the same of a tick in ASSESS that is not a stuck-recovery *)
(* tick.                                                                   *)
C25_AssessTickUnlessStuck ==
  [][(prog = "advanced" /\ state = "ASSESS" /\ handler' # "stuck") =>
       /\ cmds' = <<>>
       /\ Len(fires_read') = 0 => (state' = "ASSESS" /\ elapsed' = AssessWait)
       /\ Len(fires_read') > 0 => state' = "RESPOND"]_vars
C25_Witness ==
  /\ prog = "advanced" /\ handler = "ASSESS" /\ state = "ASSESS"
  /\ fire_count_read > 0 /\ Len(fires_read) = 0 /\ cmds = <<>> /\ elapsed = AssessWait
  /\ stuck_counter > 1

(* C26: stuck_counter counts the consecutive ticks in which the position   *)
(* moved less than 1 block since the previous tick and a move of 1 block   *)
(* or more resets it; a tick in which it exceeds 8 writes one patrol       *)
(* command, resets it and handles no state, leaving the state,             *)
(* patrol_cycles, last_patrol and fires_suppressed_total as they were; so  *)
(* it is at most 8 whenever a state is handled.                            *)
MovedLessThanOne == calculate_distance_sq(position_read', position_read) < Sq(MoveThreshold)
StuckRecoveryTick ==
  /\ handler' = "stuck"
  /\ cmds' = <<send_command("patrol", EmptyDict)>>
  /\ stuck_counter' = 0
  /\ UNCHANGED <<state, patrol_cycles, fires_suppressed_total>>
  /\ last_patrol_age' = Aged(last_patrol_age, elapsed')
C26_StuckRecovery ==
  /\ [](prog = "advanced" /\ handler \in States => stuck_counter <= StuckLimit)
  /\ [][(prog = "advanced" /\ handler # "none") =>
         IF ~MovedLessThanOne THEN stuck_counter' = 0 /\ handler' # "stuck"
         ELSE IF stuck_counter + 1 > StuckLimit THEN StuckRecoveryTick
         ELSE stuck_counter' = stuck_counter + 1 /\ handler' # "stuck"]_vars

(* C27: in advanced_firebot, advanced_ai_firebot and auto_firebot a         *)
(* suppress command is written only after a snapshot was read in which the *)
(* position is within the close range of the first hazard of the list.     *)
C27_SuppressOnlyAfterNearRead ==
  (prog \in {"advanced", "ai", "auto"} /\ near_read # "untracked" /\ Wrote("suppress"))
    => near_read = "yes"

(* C28: in advanced_ai_firebot the inner suppression loop ends after at    *)
(* most 10 rounds, each writing at most one suppress command; suppress is  *)
(* written only in a round whose read has fire_count > 0 and a non-empty   *)
(* list; a read with fire_count 0 or an empty list ends the loop, and the  *)
(* outer loop goes on.                                                     *)
SuppressWritten == Cardinality({i \in DOMAIN cmds : cmds[i].action = "suppress"})
C28_SuppressLoopBounded ==
  /\ [](prog = "ai" => /\ attempts <= max_attempts
                       /\ fires_this_round <= attempts
                       /\ ai_pc = "round" => attempts < max_attempts)
  /\ [][prog = "ai" =>
         /\ handler' = "decide" => SuppressWritten' = 0
         /\ handler' = "round" =>
              /\ attempts' = attempts + 1
              /\ SuppressWritten' <= 1
              /\ SuppressWritten' = 1
                   <=> (fire_count_read' > 0 /\ Len(fires_read') > 0)
              /\ (fire_count_read' = 0 \/ Len(fires_read') = 0 \/ attempts' = max_attempts)
                   <=> ai_pc' = "decide"]_vars
C28_Witness ==
  /\ prog = "ai" /\ handler = "round" /\ attempts = max_attempts
  /\ fires_this_round = max_attempts /\ SuppressWritten = 1 /\ ai_pc = "decide"

(* C29: what a suppression episode of advanced_ai_firebot adds to          *)
(* fires_suppressed is the decrease of fire_count from the first read of   *)
(* the episode (the read of the decision, or the first read of the loop)   *)
(* to its last read.                                                       *)
C29_SuppressedIsCountDecrease ==
  (prog = "ai" /\ episode.tracked /\ handler = "round" /\ ai_pc = "decide") =>
    \/ fires_this_round = episode.decide - fire_count_read
    \/ fires_this_round = episode.round - fire_count_read

(* C30: in minecraft_firebot_simple the action of a step and the bot       *)
(* commands it executes are a function of the scanned fire_count alone,    *)
(* whatever the model responds; left and right are never chosen.           *)
ActionOfCount(fire_count) == IF fire_count > 0 THEN "investigate" ELSE "forward"
CommandsOfCount(fire_count) ==
  IF fire_count > 0
  THEN <<send_bot_command("scan"), send_bot_command("forward"), send_bot_command("forward")>>
  ELSE <<send_bot_command("scan"), send_bot_command("forward")>>
C30_ActionDependsOnCountOnly ==
  /\ [](prog = "simple" => action \notin {"left", "right"})
  /\ [][(prog = "simple" /\ crash' = "none") =>
         /\ action' = ActionOfCount(fire_count_read')
         /\ cmds' = CommandsOfCount(fire_count_read')]_vars
C30_Witness ==
  /\ prog = "simple" /\ crash = "none" /\ step = MaxSteps
  /\ fire_count_read > 0 /\ action = "investigate" /\ Len(cmds) = 3

AddExperienceStep == prog = "learner" /\ call'.fn = "add_experience" /\ clock' # clock

(* C31: each label's replay buffer holds at most replay_buffer_size // 2    *)
(* experiences, and an add_experience call leaves in its label's buffer the *)
(* most recently added ones in order (the oldest is evicted first) and the  *)
(* other buffer as it was; the total stored never exceeds                   *)
(* replay_buffer_size; every call raises total_experiences by exactly one,  *)
(* and the stored count never exceeds total_experiences.                    *)
C31_ReplayBufferBounded ==
  /\ [](prog = "learner" =>
          /\ \A label \in Labels : Len(experience_buffer[label]) <= replay_buffer_size \div 2
          /\ Stored(experience_buffer) <= replay_buffer_size
          /\ Stored(experience_buffer) <= learning_stats.total_experiences)
  /\ [][AddExperienceStep =>
          LET label == call'.ground_truth
              added == Append(experience_buffer[label], result'.returned)
          IN /\ experience_buffer'[label] = LastOf(replay_buffer_size \div 2, added)
             /\ \A other \in Labels \ {label} :
                  experience_buffer'[other] = experience_buffer[other]
             /\ learning_stats'.total_experiences = learning_stats.total_experiences + 1]_vars
(* a call has evicted the oldest experience of a full buffer *)
C31_Witness ==
  /\ prog = "learner" /\ call.fn = "add_experience" /\ ~learning_file.exists
  /\ Len(experience_buffer[call.ground_truth]) = replay_buffer_size \div 2
  /\ Stored(experience_buffer) < learning_stats.total_experiences
  /\ experience_buffer[call.ground_truth][1].timestamp.iso > 1

SinceRetraining(minute) == minute - fromisoformat(learning_stats.last_retraining)
Retrained == learning_stats'.retraining_sessions > learning_stats.retraining_sessions

(* C32: should_retrain returns False whenever the last retraining was less  *)
(* than 10 minutes ago, so two retraining sessions triggered by             *)
(* add_experience are never less than 10 minutes apart.                     *)
C32_RetrainCooldown ==
  [][(AddExperienceStep /\ ~learning_stats.last_retraining.none) =>
       /\ (SinceRetraining(clock') < CooldownMinutes =>
             result'.branch \notin {"accuracy", "growth"})
       /\ (Retrained => SinceRetraining(clock') >= CooldownMinutes)]_vars

RecentAccurate(buffers) ==
  100 * CorrectIn(recent_experiences(buffers)) >= AccuracyPercent * Len(recent_experiences(buffers))
CooldownElapsed(minute) ==
  learning_stats.last_retraining.none \/ SinceRetraining(minute) >= CooldownMinutes
GrownByHalf(buffers, stats) == 2 * Stored(buffers) > 3 * stats.total_experiences

(* what the code does instead: no learner ever has a stored count above    *)
(* 1.5 times its total_experiences                                         *)
GrowthConditionNeverHolds ==
  prog = "learner" => ~GrownByHalf(experience_buffer, learning_stats)

MostRecent(n, buffers) ==
  LET stored == UNION {{buffers[label][i] : i \in DOMAIN buffers[label]} : label \in Labels}
  IN {e \in stored :
        Cardinality({later \in stored : later.timestamp.iso > e.timestamp.iso}) < n}
ComparesAccuracy ==
  prog = "learner" /\ call.fn = "add_experience"
  /\ result.branch \notin {"few_stored", "few_recent"}

(* C34: the recent accuracy should_retrain compares with 85% is the         *)
(* fraction of correct predictions among the last 50 experiences added,     *)
(* across both labels; retraining for low accuracy happens only with at    *)
(* least 100 experiences stored.                                            *)
C34_RecentAccuracyOfLastAdded ==
  LET compared == recent_experiences(experience_buffer)
      last_added == MostRecent(RecentWindow, experience_buffer)
  IN /\ ComparesAccuracy =>
          CorrectIn(compared) * Cardinality(last_added) =
            Cardinality({e \in last_added : e.was_correct}) * Len(compared)
     /\ (prog = "learner" /\ call.fn = "add_experience" /\ result.branch = "accuracy")
          => Stored(experience_buffer) >= MinStored

(* C35: after save_experiences the file holds the learner's learning_stats  *)
(* and stored experiences (prediction, ground truth, confidence, time       *)
(* stamp, correctness per label), and a newly constructed OnlineLearner has *)
(* the same learning_stats and the same stored experiences; with no saved   *)
(* file it starts with empty buffers and zeroed statistics.                 *)
C35_PersistenceRoundTrip ==
  [][/\ (prog = "learner" /\ call'.fn = "save_experiences") =>
          /\ PyStats(learning_file'.document.learning_stats) = learning_stats
          /\ PyBuffers(learning_file'.document.experience_buffer) = experience_buffer
     /\ (prog = "learner" /\ call'.fn = "__init__") =>
          IF learning_file.exists
          THEN /\ learning_stats' = PyStats(learning_file.document.learning_stats)
               /\ experience_buffer' = PyBuffers(learning_file.document.experience_buffer)
          ELSE /\ learning_stats' = DefaultStats
               /\ experience_buffer' = EmptyBuffers]_vars

AdaptStep == prog = "learner" /\ call'.fn = "adapt_threshold"
FalsePositiveRateHigh(l) == 100 * l.false_positives > RatePercent * len(l)
FalseNegativeRateHigh(l) == 100 * l.false_negatives > RatePercent * len(l)

(* C36: the stored adaptive_threshold stays within [0.2, 0.8] and changes   *)
(* by at most 0.05 per adapt_threshold call; a call with fewer than 20      *)
(* predictions leaves it unchanged; with at least 20 it is raised (up to    *)
(* 0.8) when the false-positive rate exceeds 10%, otherwise lowered (down   *)
(* to 0.2) when the false-negative rate exceeds 10%, otherwise unchanged;   *)
(* and the value a call returns is the stored threshold after the call.     *)
C36_AdaptiveThreshold ==
  /\ [](prog = "learner" =>
          /\ learning_stats.adaptive_threshold >= ThresholdMin
          /\ learning_stats.adaptive_threshold <= ThresholdMax)
  /\ [][AdaptStep =>
          LET before == learning_stats.adaptive_threshold
              after == learning_stats'.adaptive_threshold
              l == call'.recent_predictions
          IN /\ after - before <= ThresholdStep /\ before - after <= ThresholdStep
             /\ len(l) < MinPredictions => after = before
             /\ (len(l) >= MinPredictions /\ FalsePositiveRateHigh(l)) =>
                  after = Min(ThresholdMax, before + ThresholdStep)
             /\ (len(l) >= MinPredictions /\ ~FalsePositiveRateHigh(l)
                   /\ FalseNegativeRateHigh(l)) =>
                  after = Max(ThresholdMin, before - ThresholdStep)
             /\ (len(l) >= MinPredictions /\ ~FalsePositiveRateHigh(l)
                   /\ ~FalseNegativeRateHigh(l)) => after = before
             /\ result'.returned = after]_vars

Prepared == prog = "train" /\ call.fn = "prepare_training_data" /\ result.returned

(* C37: after a prepare_training_data run over a set of labeled samples     *)
(* that has grown since the runs before, no sample file is in both the      *)
(* train and the validation directory, every fire_detected and no_fire      *)
(* sample is in exactly one of them, and no uncertain sample is in either.  *)
C37_SplitIsPartition ==
  Prepared =>
    /\ split_dirs.train \cap split_dirs.val = {}
    /\ \A label \in Labels : \A name \in FilesOf(label) :
         (<<label, name>> \in split_dirs.train) # (<<label, name>> \in split_dirs.val)
    /\ \A file \in split_dirs.train \cup split_dirs.val : file[1] \in Labels

(* C19: the command handler deletes only a command it has read: no write   *)
(* of the loop is unlinked without having been read by the handler.         *)
C19_OnlyReadCommandsDeleted == prog = "channel" => lost = {}

(* C20: a command.json that is empty or partly written when the handler     *)
(* reads it counts as no command, and the handler keeps running.            *)
C20_PartialFileKeepsHandlerRunning == prog = "channel" => ~js_crashed

====
